---- MODULE Spec2Model ----
(***************************************************************************)
(* Terraform MCP server: session hooks, per-session client caches, the     *)
(* rate-limit middleware, the dynamic (credentialed) tool registry and the *)
(* HTTP admission chain.                                                   *)
(*                                                                         *)
(*   pkg/client/session.go      NewSessionHandler / EndSessionHandler      *)
(*   pkg/client/registry.go     activeHttpClients and its accessors        *)
(*   pkg/client/tfe_client.go   activeTfeClients and its accessors         *)
(*   pkg/client/ratelimit.go    RateLimitMiddleware                        *)
(*   pkg/tools/dynamic_tool.go  DynamicToolRegistry, createDynamicTFETool  *)
(*   pkg/client/middleware.go   securityHandler, TerraformContextMiddleware*)
(*   cmd/terraform-mcp-server/init.go  NewServer, streamableHTTPServerInit *)
(*                                                                         *)
(* Every lock acquisition and every sync.Map operation is one atomic step; *)
(* goroutines (session hooks, tool calls) interleave between steps.        *)
(***************************************************************************)
EXTENDS Integers, Sequences, FiniteSets, TLC

(***************************************************************************)
(* Bounds of the model.                                                    *)
(***************************************************************************)
\* total number of tool / resource calls dispatched in one behaviour
MaxCalls == 3
\* number of refill ticks (seconds) of the token buckets
MaxTime == 1

\* session IDs handed out by the server; "" is "no session in the context"
Sessions == {"s1", "s2"}
NoSession == ""
\* goroutines serving calls concurrently
Calls == {"c1", "c2"}

Min(a, b) == IF a < b THEN a ELSE b

(***************************************************************************)
(* Values bound into a session's context by TerraformContextMiddleware     *)
(* (or taken from the environment): the resolved token and address.        *)
(***************************************************************************)
DefaultTerraformAddress == "https://app.terraform.io"
MalformedAddress == "::malformed"
SessionContexts ==
    { [token |-> "",    address |-> DefaultTerraformAddress],
      [token |-> "tok", address |-> DefaultTerraformAddress],
      [token |-> "tok", address |-> MalformedAddress] }

(***************************************************************************)
(* Rate-limit configurations (RateLimitConfig).  TestConfig is the one of  *)
(* TestRateLimitMiddleware; WideConfig has a global bucket larger than the *)
(* session bucket, so both levels can deny; RoomyConfig lets several calls *)
(* of one session pass within one second.  One tick is one second, so a    *)
(* limit of n adds n tokens per tick.                                      *)
(***************************************************************************)
TestConfig ==
    [GlobalLimit |-> 1, GlobalBurst |-> 1, PerSessionLimit |-> 1, PerSessionBurst |-> 1]
WideConfig ==
    [GlobalLimit |-> 2, GlobalBurst |-> 2, PerSessionLimit |-> 1, PerSessionBurst |-> 1]
RoomyConfig ==
    [GlobalLimit |-> 1, GlobalBurst |-> 3, PerSessionLimit |-> 1, PerSessionBurst |-> 2]
Configs == {TestConfig, WideConfig}

\* error texts returned to the MCP caller
ErrGlobal == "rate limit exceeded: too many requests globally"
ErrSession == "rate limit exceeded: too many requests from this session"
ErrNoSessionCtx == "This tool requires an active session with valid Terraform Cloud/Enterprise configuration."
ErrCredential == "This tool is not available. This tool requires a valid Terraform Cloud/Enterprise token and configuration. Please ensure TFE_TOKEN and TFE_ADDRESS environment variables are properly set."
ErrGetClient == "getting Terraform client"
ErrNoActiveSession == "no active session"
ResultOk == "ok"

\* client objects: who they were created for, and the how-manieth for that key
NoClient == [owner |-> "none", n |-> 0]

VARIABLES
    config,             \* RateLimitMiddleware.config
    now,                \* ticks elapsed
    globalTokens,       \* tokens in RateLimitMiddleware.globalLimiter
    sessionLimiters,    \* RateLimitMiddleware.sessionLimiters: session -> limiter index, 0 = no entry
    limiterTokens,      \* tokens of every rate.Limiter created for a session, by index
    limiterOwner,       \* the session each of those limiters was created for
    activeHttpClients,  \* registry.go: session -> client, NoClient = no entry
    activeTfeClients,   \* tfe_client.go: session -> client, NoClient = no entry
    httpCreated,        \* number of HTTP clients created per session
    tfeCreated,         \* number of TFE clients created per session
    sessionsWithTFE,    \* DynamicToolRegistry.sessionsWithTFE (keys mapped to true)
    tfeToolsRegistered, \* DynamicToolRegistry.tfeToolsRegistered
    toolSetsAdded,      \* how many times the credentialed tool set was added to the server
    mu,                 \* DynamicToolRegistry.mu: the goroutine in Lock and the holders of the read lock
    sess,               \* per session: position in its lifecycle
    sessCtx,            \* per session: the context bound to it
    calls,              \* per goroutine: the call it is serving
    dispatched,         \* calls dispatched so far
    handled,            \* per session: calls that had reached their handler by the end of tick t
    admitted,           \* calls the global limiter had let pass by the end of tick t
    http                \* the HTTP request being admitted (admission chain)

vars == << config, now, globalTokens, sessionLimiters, limiterTokens, limiterOwner,
           activeHttpClients, activeTfeClients, httpCreated, tfeCreated,
           sessionsWithTFE, tfeToolsRegistered, toolSetsAdded, mu,
           sess, sessCtx, calls, dispatched, handled, admitted, http >>

rateVars == << globalTokens, sessionLimiters, limiterTokens, limiterOwner >>
clientVars == << activeHttpClients, activeTfeClients, httpCreated, tfeCreated >>
registryVars == << sessionsWithTFE, tfeToolsRegistered, toolSetsAdded, mu >>
sessVars == << sess, sessCtx >>

(***************************************************************************)
(* golang.org/x/time/rate token bucket, in whole tokens and whole ticks.   *)
(***************************************************************************)
\* rate.NewLimiter(limit, burst): a new bucket is full
NewLimiter(burst) == burst

\* a limiter that never denies
AllowAlways(tokens) == TRUE
\* limiter.Allow(): a token is available (and is then taken)
Allow(tokens) == tokens > 0

\* a limiter that hands out tokens without taking them
TakeNone(tokens) == tokens
\* a limiter whose Allow() costs two tokens
TakeTwo(tokens) == IF Allow(tokens) THEN (IF tokens >= 2 THEN tokens - 2 ELSE 0) ELSE tokens
\* the tokens left after Allow() answered
Take(tokens) == IF Allow(tokens) THEN tokens - 1 ELSE tokens

\* continuous refill at `limit` tokens per second, capped at `burst`
Refill(tokens, limit, burst) == Min(burst, tokens + limit)

(***************************************************************************)
(* The two session-keyed sync.Maps.                                        *)
(***************************************************************************)
\* a lookup that ignores its key
GetHttpClientAnyKey(sessionId) ==
    IF \E s \in Sessions : activeHttpClients[s] # NoClient
    THEN activeHttpClients[CHOOSE s \in Sessions : activeHttpClients[s] # NoClient]
    ELSE NoClient
\* GetHttpClient: activeHttpClients.Load(sessionId), nil when absent
GetHttpClient(sessionId) == activeHttpClients[sessionId]

\* GetTfeClient: activeTfeClients.Load(sessionId), nil when absent
GetTfeClient(sessionId) == activeTfeClients[sessionId]

\* NewHttpClient: createHTTPClient, then activeHttpClients.Store(sessionId, client)
NewHttpClient(sessionId) ==
    /\ httpCreated' = [httpCreated EXCEPT ![sessionId] = @ + 1]
    /\ activeHttpClients' =
          [activeHttpClients EXCEPT
              ![sessionId] = [owner |-> sessionId, n |-> httpCreated[sessionId] + 1]]

\* a constructor that does not ask for a token
NewTfeClientOkAnyToken(ctx) == ctx.address # MalformedAddress
\* NewTfeClient succeeds: non-empty token and tfe.NewClient accepts the address
NewTfeClientOk(ctx) == ctx.token # "" /\ ctx.address # MalformedAddress

\* NewTfeClient: on success activeTfeClients.Store(sessionId, client); on error no entry
NewTfeClient(sessionId, ctx) ==
    IF NewTfeClientOk(ctx)
    THEN /\ tfeCreated' = [tfeCreated EXCEPT ![sessionId] = @ + 1]
         /\ activeTfeClients' =
               [activeTfeClients EXCEPT
                   ![sessionId] = [owner |-> sessionId, n |-> tfeCreated[sessionId] + 1]]
    ELSE UNCHANGED << tfeCreated, activeTfeClients >>

DeleteTfeClient(sessionId) ==
    activeTfeClients' = [activeTfeClients EXCEPT ![sessionId] = NoClient]

DeleteHttpClient(sessionId) ==
    activeHttpClients' = [activeHttpClients EXCEPT ![sessionId] = NoClient]

(***************************************************************************)
(* DynamicToolRegistry (all methods run under r.mu).  r.mu is a            *)
(* sync.RWMutex: Lock first takes the writer slot, which keeps new readers *)
(* out, and then waits for the readers inside to leave; RLock waits while  *)
(* a goroutine is in Lock.  The methods below are the bodies of the        *)
(* registry's methods: each takes the lock on entry and has released it on *)
(* return, so r.mu is as it was when the step is over.                     *)
(***************************************************************************)
NoGoroutine == ""
MuFree == [w |-> NoGoroutine, r |-> {}]

\* registerTFETools: adds the credentialed tool set once, then sets the flag
registerTFETools ==
    IF tfeToolsRegistered
    THEN UNCHANGED << tfeToolsRegistered, toolSetsAdded >>
    ELSE /\ toolSetsAdded' = toolSetsAdded + 1
         /\ tfeToolsRegistered' = TRUE

\* a registration that forgets the sessions registered before
RegisterSessionWithTFEAlone(sessionID) ==
    /\ sessionsWithTFE' = {sessionID}
    /\ IF ~tfeToolsRegistered THEN registerTFETools
       ELSE UNCHANGED << tfeToolsRegistered, toolSetsAdded >>
    /\ UNCHANGED mu
RegisterSessionWithTFE(sessionID) ==
    /\ sessionsWithTFE' = sessionsWithTFE \cup {sessionID}
    /\ IF ~tfeToolsRegistered
       THEN registerTFETools
       ELSE UNCHANGED << tfeToolsRegistered, toolSetsAdded >>
    /\ UNCHANGED mu

\* an unregistration that withdraws the tools with the last session
UnregisterSessionWithTFEWithdraws(sessionID) ==
    /\ sessionsWithTFE' = sessionsWithTFE \ {sessionID}
    /\ tfeToolsRegistered' = (tfeToolsRegistered /\ sessionsWithTFE \ {sessionID} # {})
    /\ UNCHANGED << toolSetsAdded, mu >>
UnregisterSessionWithTFE(sessionID) ==
    /\ sessionsWithTFE' = sessionsWithTFE \ {sessionID}
    /\ UNCHANGED << tfeToolsRegistered, toolSetsAdded, mu >>

HasSessionWithTFE(sessionID) == sessionID \in sessionsWithTFE

HasAnySessionWithTFE == Cardinality(sessionsWithTFE) > 0

(***************************************************************************)
(* CleanupSessions(activeSessions): what the sweep would leave in          *)
(* sessionLimiters.  NewServer never calls it, so it is no action.         *)
(***************************************************************************)
CleanupSessions(activeSessions) ==
    [s \in Sessions |-> IF s \in activeSessions THEN sessionLimiters[s] ELSE 0]

(***************************************************************************)
(* Session lifecycle: the OnRegisterSession / OnUnregisterSession hooks of *)
(* NewServer run NewSessionHandler and EndSessionHandler.  A session ID is *)
(* registered once and torn down once.  Requests of a session are          *)
(* dispatched after its registration hook has returned, so the statements  *)
(* of NewSessionHandler (which touch only that session's keys and take the *)
(* registry lock once) are one step; EndSessionHandler runs while calls of *)
(* the session may still be in flight, so each of its statements is a step.*)
(***************************************************************************)
LiveSessions == { s \in Sessions : sess[s] = "live" }
EndedSessions == { s \in Sessions : sess[s] = "ended" }

\* what CreateTfeClientForSession leaves in NewSessionHandler's local tfeClient
CreatedTfeClient(s, ctx) ==
    IF NewTfeClientOk(ctx) THEN [owner |-> s, n |-> tfeCreated[s] + 1] ELSE NoClient

\* session IDs are handed out in order: "s2" is not registered before "s1"
CanRegister(s) ==
    /\ sess[s] = "none"
    /\ s = "s2" => sess["s1"] # "none"

\* a goroutine is free; "c2" serves only while "c1" is busy
CanServe(c) ==
    /\ calls[c].pc \in {"idle", "done"}
    /\ c = "c2" => calls["c1"].pc \notin {"idle", "done"}

\* a session hook that reports every session to the registry, client or not
NewSessionHandlerAlwaysRegisters(s, ctx) ==
    /\ CanRegister(s)
    /\ sessCtx' = [sessCtx EXCEPT ![s] = ctx]
    /\ NewTfeClient(s, ctx)
    /\ NewHttpClient(s)
    /\ RegisterSessionWithTFE(s)
    /\ sess' = [sess EXCEPT ![s] = "live"]
    /\ UNCHANGED << config, now, rateVars, calls, dispatched, handled, admitted >>
\* a session hook that gives up when the backend client cannot be built
NewSessionHandlerFatal(s, ctx) ==
    /\ CanRegister(s)
    /\ sessCtx' = [sessCtx EXCEPT ![s] = ctx]
    /\ NewTfeClient(s, ctx)
    /\ IF NewTfeClientOk(ctx)
       THEN NewHttpClient(s) /\ RegisterSessionWithTFE(s)
       ELSE UNCHANGED << activeHttpClients, httpCreated, registryVars >>
    /\ sess' = [sess EXCEPT ![s] = "live"]
    /\ UNCHANGED << config, now, rateVars, calls, dispatched, handled, admitted >>
\* a session hook that never tells the registry
NewSessionHandlerNeverRegisters(s, ctx) ==
    /\ CanRegister(s)
    /\ sessCtx' = [sessCtx EXCEPT ![s] = ctx]
    /\ NewTfeClient(s, ctx)
    /\ NewHttpClient(s)
    /\ UNCHANGED registryVars
    /\ sess' = [sess EXCEPT ![s] = "live"]
    /\ UNCHANGED << config, now, rateVars, calls, dispatched, handled, admitted >>
\* NewSessionHandler: CreateTfeClientForSession; CreateHttpClientForSession;
\* if tfeClient != nil { registryCallback.RegisterSessionWithTFE(sessionID) }
NewSessionHandler(s, ctx) ==
    /\ CanRegister(s)
    /\ sessCtx' = [sessCtx EXCEPT ![s] = ctx]
    /\ NewTfeClient(s, ctx)
    /\ NewHttpClient(s)
    /\ IF CreatedTfeClient(s, ctx) # NoClient
       THEN RegisterSessionWithTFE(s)
       ELSE UNCHANGED registryVars
    /\ sess' = [sess EXCEPT ![s] = "live"]
    /\ UNCHANGED << config, now, rateVars, calls, dispatched, handled, admitted >>

\* hooks.AddOnRegisterSession: the server registers session s, whose context
\* resolves to ctx, and runs the hook
OnRegisterSession(s, ctx) ==
    /\ NewSessionHandler(s, ctx)
    /\ UNCHANGED http

\* EndSessionHandler: registryCallback.UnregisterSessionWithTFE(sessionID)
EndSessionHandlerUnregister(s) ==
    /\ sess[s] = "live"
    /\ UnregisterSessionWithTFE(s)
    /\ sess' = [sess EXCEPT ![s] = "end_tfe"]
    /\ UNCHANGED << config, now, rateVars, clientVars, sessCtx,
                    calls, dispatched, handled, admitted, http >>

\* EndSessionHandler: DeleteTfeClient(sessionID)
EndSessionHandlerDeleteTfe(s) ==
    /\ sess[s] = "end_tfe"
    /\ DeleteTfeClient(s)
    /\ sess' = [sess EXCEPT ![s] = "end_http"]
    /\ UNCHANGED << config, now, rateVars, activeHttpClients, httpCreated, tfeCreated,
                    registryVars, sessCtx, calls, dispatched, handled, admitted, http >>

\* EndSessionHandler: DeleteHttpClient(sessionID); the hook has then run
EndSessionHandlerDeleteHttp(s) ==
    /\ sess[s] = "end_http"
    /\ DeleteHttpClient(s)
    /\ sess' = [sess EXCEPT ![s] = "ended"]
    /\ UNCHANGED << config, now, rateVars, activeTfeClients, httpCreated, tfeCreated,
                    registryVars, sessCtx, calls, dispatched, handled, admitted, http >>

(***************************************************************************)
(* A call served by goroutine c.                                           *)
(*   tool "registry": an always-available tool (GetHttpClientFromContext)  *)
(*   tool "tfe":      a credentialed tool wrapped by createDynamicTFETool  *)
(*   tool "resource": a readResource (no tool middleware)                  *)
(* Fields: pc, the session ID in the context, the tool, the limiter and    *)
(* client held in locals, and what has happened to the call so far:        *)
(*   gtok / stok  it took a token of the global / its session's bucket     *)
(*   gate         it entered the credential gate (wrappedHandler)          *)
(*   lacked       its session had no backend client whenever the gate     *)
(*                looked at the registry or at the backend-client map      *)
(*   invoked      the real handler was invoked                             *)
(*   upstream     the registry's answers to the attempts of its HTTP call  *)
(***************************************************************************)
IdleCall ==
    [pc |-> "idle", sid |-> NoSession, tool |-> "none", lim |-> 0,
     client |-> NoClient, gtok |-> FALSE, stok |-> FALSE, lacked |-> FALSE,
     gate |-> FALSE, invoked |-> FALSE, result |-> "", upstream |-> << >>]

Finished(c) == calls[c].pc = "done"

\* the position at which the handler registered for `tool` starts
HandlerEntry(tool) == IF tool = "tfe" THEN "gate_has" ELSE "h_get"

\* the context and request of a call as it enters the server's handler chain
NewCall(sid, tool) ==
    [IdleCall EXCEPT !.sid = sid, !.tool = tool, !.invoked = (tool = "resource"),
                     !.pc = IF tool = "resource" THEN "h_get" ELSE "rl_global"]

\* one more call of session sid passed the rate limiter in the current tick
CountHandled(sid) ==
    handled' = [t \in 0..MaxTime |->
                   IF t >= now THEN [handled[t] EXCEPT ![sid] = @ + 1] ELSE handled[t]]

\* the call as it enters the handler registered for its tool (next(ctx, request))
EnterHandler(call) ==
    [call EXCEPT !.pc = HandlerEntry(call.tool), !.lim = 0,
                 !.invoked = (call.tool # "tfe")]

\* the call as it returns `result`
Return(call, result) == [call EXCEPT !.pc = "done", !.lim = 0, !.result = result]

\* a middleware without the per-session check
NextAfterGlobalSkipsSession(ok, call) ==
    IF ~ok THEN "done" ELSE HandlerEntry(call.tool)
\* a middleware that goes on after the global limiter denied
NextAfterGlobalIgnoresDenial(ok, call) ==
    IF call.sid # NoSession THEN "rl_rlock" ELSE HandlerEntry(call.tool)
\* Middleware, after globalLimiter.Allow(): return the error, or go on to the
\* per-session check when getSessionIDFromContext(ctx) is not ""
NextAfterGlobal(ok, call) ==
    IF ~ok THEN "done"
    ELSE IF call.sid # NoSession THEN "rl_rlock" ELSE HandlerEntry(call.tool)

\* Middleware on the new call `call` of goroutine c:
\* if !m.globalLimiter.Allow() { return error }
Middleware(c, call) ==
    /\ LET ok == Allow(globalTokens)
           nxt == NextAfterGlobal(ok, call)
           seen == [call EXCEPT !.gtok = (Take(globalTokens) # globalTokens)]
       IN /\ globalTokens' = Take(globalTokens)
          /\ admitted' = [t \in 0..MaxTime |->
                             IF t >= now /\ seen.gtok THEN admitted[t] + 1 ELSE admitted[t]]
          /\ IF nxt = "done"
             THEN /\ calls' = [calls EXCEPT ![c] = Return(seen, ErrGlobal)]
                  /\ UNCHANGED handled
             ELSE IF nxt = "rl_rlock"
             THEN /\ calls' = [calls EXCEPT ![c] = [seen EXCEPT !.pc = "rl_rlock"]]
                  /\ UNCHANGED handled
             ELSE /\ calls' = [calls EXCEPT ![c] = EnterHandler(seen)]
                  /\ CountHandled(call.sid)
    /\ UNCHANGED << sessionLimiters, limiterTokens, limiterOwner >>

\* callTool: the server reads a tools/call request of a registered session off
\* the transport and runs the handler chain on a free goroutine, the rate-limit
\* middleware first; a credentialed tool can be called once it is in the catalog
HandleToolCall(c) ==
    /\ CanServe(c)
    /\ dispatched < MaxCalls
    /\ \E sid \in LiveSessions, tool \in {"registry", "tfe"} :
          /\ tool = "tfe" => tfeToolsRegistered
          /\ Middleware(c, NewCall(sid, tool))
    /\ dispatched' = dispatched + 1
    /\ UNCHANGED << config, now, clientVars, registryVars, sessVars >>

\* a tools/call request, whatever transport brought it
callTool(c) ==
    /\ HandleToolCall(c)
    /\ UNCHANGED http

\* a tool call whose context carries no session (as in TestRateLimitMiddleware)
callToolNoSession(c) ==
    /\ CanServe(c)
    /\ dispatched < MaxCalls
    /\ \E tool \in {"registry", "tfe"} :
          /\ tool = "tfe" => tfeToolsRegistered
          /\ Middleware(c, NewCall(NoSession, tool))
    /\ dispatched' = dispatched + 1
    /\ UNCHANGED << config, now, clientVars, registryVars, sessVars, http >>

\* readResource: no tool middleware, the reader runs at once
readResource(c) ==
    /\ CanServe(c)
    /\ dispatched < MaxCalls
    /\ \E sid \in LiveSessions : calls' = [calls EXCEPT ![c] = NewCall(sid, "resource")]
    /\ dispatched' = dispatched + 1
    /\ UNCHANGED << config, now, rateVars, clientVars, registryVars, sessVars, handled, admitted, http >>

\* a getSessionLimiter without the double-check
RecheckNever(sessionID) == FALSE
\* getSessionLimiter: the double-check after acquiring m.mu.Lock()
Recheck(sessionID) == sessionLimiters[sessionID] # 0

\* Middleware: sessionLimiter.Allow() on limiter lim; error, or next(ctx, request)
SessionAllow(c, lim, tokens) ==
    LET seen == [calls[c] EXCEPT !.stok = (Take(tokens) # tokens)]
    IN /\ limiterTokens' =
             [i \in DOMAIN limiterTokens \cup {lim} |->
                 IF i = lim THEN Take(tokens) ELSE limiterTokens[i]]
       /\ IF Allow(tokens)
          THEN /\ calls' = [calls EXCEPT ![c] = EnterHandler(seen)]
               /\ CountHandled(calls[c].sid)
          ELSE /\ calls' = [calls EXCEPT ![c] = Return(seen, ErrSession)]
               /\ UNCHANGED handled

\* getSessionLimiter: lookup under m.mu.RLock(); a limiter found stays in the map
\* for good, so its Allow() is taken in the same step
getSessionLimiterRead(c) ==
    /\ calls[c].pc = "rl_rlock"
    /\ LET found == sessionLimiters[calls[c].sid]
       IN IF found # 0
          THEN /\ SessionAllow(c, found, limiterTokens[found])
               /\ UNCHANGED << sessionLimiters, limiterOwner >>
          ELSE /\ calls' = [calls EXCEPT ![c] = [@ EXCEPT !.pc = "rl_wlock"]]
               /\ UNCHANGED << sessionLimiters, limiterTokens, limiterOwner, handled >>
    /\ UNCHANGED << config, now, globalTokens, clientVars, registryVars, sessVars,
                    dispatched, admitted, http >>

\* getSessionLimiter: under m.mu.Lock(), re-check, else create and insert; then
\* Allow() on the limiter returned
getSessionLimiterWrite(c) ==
    /\ calls[c].pc = "rl_wlock"
    /\ LET sid == calls[c].sid
       IN IF Recheck(sid)
          THEN /\ SessionAllow(c, sessionLimiters[sid], limiterTokens[sessionLimiters[sid]])
               /\ UNCHANGED << sessionLimiters, limiterOwner >>
          ELSE /\ limiterOwner' = Append(limiterOwner, sid)
               /\ sessionLimiters' = [sessionLimiters EXCEPT ![sid] = Len(limiterTokens) + 1]
               /\ SessionAllow(c, Len(limiterTokens) + 1, NewLimiter(config.PerSessionBurst))
    /\ UNCHANGED << config, now, globalTokens, clientVars, registryVars, sessVars,
                    dispatched, admitted, http >>

(***************************************************************************)
(* createDynamicTFETool: the wrapper around every credentialed handler.    *)
(***************************************************************************)
\* wrappedHandler: session == nil, else r.HasSessionWithTFE(sessionID) under RLock
wrappedHandlerCheck(c) ==
    /\ calls[c].pc = "gate_has"
    /\ LET sid == calls[c].sid
       IN calls' = [calls EXCEPT ![c] =
             IF sid = NoSession
             THEN Return([@ EXCEPT !.gate = TRUE], ErrNoSessionCtx)
             ELSE IF HasSessionWithTFE(sid)
             THEN [@ EXCEPT !.gate = TRUE, !.lacked = (GetTfeClient(sid) = NoClient),
                            !.invoked = TRUE, !.pc = "t_get"]
             ELSE [@ EXCEPT !.gate = TRUE, !.lacked = (GetTfeClient(sid) = NoClient),
                            !.pc = "gate_get"]]
    /\ UNCHANGED << config, now, rateVars, clientVars, registryVars, sessVars,
                    dispatched, handled, admitted, http >>

\* wrappedHandler: tfeClient := client.GetTfeClient(sessionID); nil -> the diagnostic
wrappedHandlerDoubleCheck(c) ==
    /\ calls[c].pc = "gate_get"
    /\ LET found == GetTfeClient(calls[c].sid)
       IN calls' = [calls EXCEPT ![c] =
             IF found = NoClient
             THEN Return(@, ErrCredential)
             ELSE [@ EXCEPT !.lacked = FALSE, !.pc = "gate_reg"]]
    /\ UNCHANGED << config, now, rateVars, clientVars, registryVars, sessVars,
                    dispatched, handled, admitted, http >>

\* a wrapper that runs the real handler without registering the session
wrappedHandlerRunsUnregistered(c) ==
    /\ calls[c].pc = "gate_reg"
    /\ calls' = [calls EXCEPT ![c] = [@ EXCEPT !.invoked = TRUE, !.pc = "t_get"]]
    /\ UNCHANGED << config, now, rateVars, clientVars, registryVars, sessVars,
                    dispatched, handled, admitted, http >>
\* wrappedHandler: r.RegisterSessionWithTFE(sessionID), then originalTool.Handler
wrappedHandlerRegister(c) ==
    /\ calls[c].pc = "gate_reg"
    /\ RegisterSessionWithTFE(calls[c].sid)
    /\ calls' = [calls EXCEPT ![c] = [@ EXCEPT !.invoked = TRUE, !.pc = "t_get"]]
    /\ UNCHANGED << config, now, rateVars, clientVars, sessVars, dispatched, handled, admitted, http >>

(***************************************************************************)
(* The handlers obtain their upstream client from the context.             *)
(***************************************************************************)
\* GetTfeClientFromContext: the existing client, else go on to create one
GetTfeClientFromContext(c) ==
    /\ calls[c].pc = "t_get"
    /\ LET found == GetTfeClient(calls[c].sid)
       IN calls' = [calls EXCEPT ![c] =
             IF found # NoClient
             THEN Return([@ EXCEPT !.client = found], ResultOk)
             ELSE [@ EXCEPT !.pc = "t_new"]]
    /\ UNCHANGED << config, now, rateVars, clientVars, registryVars, sessVars,
                    dispatched, handled, admitted, http >>

\* CreateTfeClientForSession -> NewTfeClient with the context's address and token
CreateTfeClientForSession(c) ==
    /\ calls[c].pc = "t_new"
    /\ LET sid == calls[c].sid
       IN /\ NewTfeClient(sid, sessCtx[sid])
          /\ calls' = [calls EXCEPT ![c] =
                IF NewTfeClientOk(sessCtx[sid])
                THEN Return([@ EXCEPT !.client = CreatedTfeClient(sid, sessCtx[sid])], ResultOk)
                ELSE Return(@, ErrGetClient)]
    /\ UNCHANGED << config, now, rateVars, activeHttpClients, httpCreated,
                    registryVars, sessVars, dispatched, handled, admitted, http >>

\* GetHttpClientFromContext: no session -> error; the existing client, else create
GetHttpClientFromContext(c) ==
    /\ calls[c].pc = "h_get"
    /\ LET sid == calls[c].sid
       IN calls' = [calls EXCEPT ![c] =
             IF sid = NoSession
             THEN Return(@, ErrNoActiveSession)
             ELSE IF GetHttpClient(sid) # NoClient
             THEN Return([@ EXCEPT !.client = GetHttpClient(sid)], ResultOk)
             ELSE [@ EXCEPT !.pc = "h_new"]]
    /\ UNCHANGED << config, now, rateVars, clientVars, registryVars, sessVars,
                    dispatched, handled, admitted, http >>

\* CreateHttpClientForSession -> NewHttpClient(session.SessionID(), ...)
CreateHttpClientForSession(c) ==
    /\ calls[c].pc = "h_new"
    /\ LET sid == calls[c].sid
       IN /\ NewHttpClient(sid)
          /\ calls' = [calls EXCEPT ![c] =
                Return([@ EXCEPT !.client = [owner |-> sid, n |-> httpCreated[sid] + 1]],
                       ResultOk)]
    /\ UNCHANGED << config, now, rateVars, activeTfeClients, tfeCreated,
                    registryVars, sessVars, dispatched, handled, admitted, http >>

(***************************************************************************)
(* One second passes: every bucket refills.                                *)
(***************************************************************************)
Tick ==
    /\ now < MaxTime
    /\ now' = now + 1
    /\ globalTokens' = Refill(globalTokens, config.GlobalLimit, config.GlobalBurst)
    /\ limiterTokens' =
          [i \in DOMAIN limiterTokens |->
              Refill(limiterTokens[i], config.PerSessionLimit, config.PerSessionBurst)]
    /\ UNCHANGED << config, sessionLimiters, limiterOwner, clientVars, registryVars,
                    sessVars, calls, dispatched, handled, admitted, http >>

(***************************************************************************)
(* The streamable-HTTP front: ServeMux, TerraformContextMiddleware,        *)
(* securityHandler, and behind them the MCP handler.  An Origin is a       *)
(* sequence of pieces so that strings.HasPrefix is computed, not assumed.  *)
(***************************************************************************)
NoOrigin == << >>
AppOrigin == << "https://", "app.example.com" >>
LocalOrigin == << "http://", "localhost", ":", "3000" >>
LookalikeOrigin == << "http://", "localhost", ".evil.example" >>
LoopbackOrigin == << "https://", "127.0.0.1", ":", "8443" >>
Origins == {NoOrigin, AppOrigin, LocalOrigin, LookalikeOrigin, LoopbackOrigin}

\* the prefixes development mode lets through
LocalPrefixes ==
    { << "http://", "localhost", ":" >>, << "https://", "localhost", ":" >>,
      << "http://", "127.0.0.1", ":" >>, << "https://", "127.0.0.1", ":" >>,
      << "http://", "[::1]", ":" >>,     << "https://", "[::1]", ":" >> }

HasPrefix(str, prefix) ==
    /\ Len(str) >= Len(prefix)
    /\ SubSeq(str, 1, Len(prefix)) = prefix

\* CORSConfig as LoadCORSConfigFromEnv returns it
CORSConfigs ==
    { [Mode |-> "strict",      AllowedOrigins |-> << >>],
      [Mode |-> "strict",      AllowedOrigins |-> << AppOrigin >>],
      [Mode |-> "development", AllowedOrigins |-> << AppOrigin >>],
      [Mode |-> "disabled",    AllowedOrigins |-> << >>] }

\* the process environment: TFE_TOKEN, TFE_ADDRESS and TFE_SKIP_TLS_VERIFY
Environments ==
    { [token |-> "", address |-> "", skip |-> ""],
      [token |-> "envtok", address |-> "https://env.example", skip |-> ""] }

Routes == {"/mcp", "/mcp/", "/health", "/other"}
Methods == {"GET", "POST", "OPTIONS"}

\* a request: route, method, Origin header, the peer's address, and the token,
\* address and TLS-skip flag as header (hX) and as query parameter (qX) under the
\* names TFE_TOKEN, TFE_ADDRESS and TFE_SKIP_TLS_VERIFY ("" is absent).
\* qLowerToken is the value of a query parameter spelt tfe_token: url.Values.Get
\* matches keys exactly, so it is a parameter of another name.
Requests ==
    [route : Routes, method : Methods, origin : Origins, remote : {"198.51.100.7:4711"},
     hToken : {"", "tok"}, qToken : {"", "qtok"}, qLowerToken : {""},
     hAddress : {"", "https://h.example"}, qAddress : {"", "https://q.example"},
     hSkip : {""}, qSkip : {""}]

NoRequest ==
    [route |-> "", method |-> "", origin |-> NoOrigin, remote |-> "",
     hToken |-> "", qToken |-> "", qLowerToken |-> "",
     hAddress |-> "", qAddress |-> "", hSkip |-> "", qSkip |-> ""]
NoContext == [token |-> "", address |-> "", skip |-> ""]

\* CORS headers that answer every allowed Origin with a wildcard
CORSHeadersWildcard(origin) ==
    { << "Access-Control-Max-Age", << "3600" >> >>,
      << "Access-Control-Allow-Origin", << "*" >> >>,
      << "Access-Control-Allow-Methods", << "GET, POST, OPTIONS" >> >>,
      << "Access-Control-Allow-Headers", << "Content-Type, Mcp-Session-Id" >> >> }
CORSHeaders(origin) ==
    { << "Access-Control-Max-Age", << "3600" >> >>,
      << "Access-Control-Allow-Origin", origin >>,
      << "Access-Control-Allow-Methods", << "GET, POST, OPTIONS" >> >>,
      << "Access-Control-Allow-Headers", << "Content-Type, Mcp-Session-Id" >> >> }

\* a check that lets localhost origins through in every mode
isOriginAllowedLocalAnyMode(origin, allowedOrigins, mode) ==
    IF mode = "disabled" THEN TRUE
    ELSE IF \E i \in DOMAIN allowedOrigins : origin = allowedOrigins[i] THEN TRUE
    ELSE \E prefix \in LocalPrefixes : HasPrefix(origin, prefix)
isOriginAllowed(origin, allowedOrigins, mode) ==
    IF mode = "disabled" THEN TRUE
    ELSE IF \E i \in DOMAIN allowedOrigins : origin = allowedOrigins[i] THEN TRUE
    ELSE IF mode = "development" THEN \E prefix \in LocalPrefixes : HasPrefix(origin, prefix)
    ELSE FALSE

\* the server with its CORS configuration and environment, no request in hand
HttpStart(cors, env) ==
    [pc |-> "idle", cors |-> cors, env |-> env, req |-> NoRequest, status |-> 0,
     headers |-> {}, body |-> << >>, log |-> {}, ctx |-> NoContext, mcp |-> FALSE,
     session |-> NoSession]
HttpIdle ==
    HttpStart([Mode |-> "strict", AllowedOrigins |-> << >>],
              [token |-> "", address |-> "", skip |-> ""])

\* http.Error / w.WriteHeader: the response is out
Respond(h, status) == [h EXCEPT !.pc = "done", !.status = status]

\* a log line or a response body is a sequence of pieces: the fixed text and
\* the values formatted into it
Logged(h, lines) == [h EXCEPT !.log = @ \cup lines]

\* mux.Handle(endpointPath, ...), mux.Handle(endpointPath+"/", ...),
\* mux.HandleFunc("/health", ...): where the mux sends a path
MuxRoute(route) ==
    IF route \in {"/mcp", "/mcp/"} THEN "context"
    ELSE IF route = "/health" THEN "health"
    ELSE "notfound"

\* the server takes the next request off the connection and the mux routes it
ServeMux(req) ==
    /\ http.pc = "idle"
    /\ LET h == [HttpStart(http.cors, http.env) EXCEPT !.req = req]
       IN http' = IF MuxRoute(req.route) = "notfound"
                  THEN [Respond(h, 404) EXCEPT !.body = << "404 page not found" >>]
                  ELSE [h EXCEPT !.pc = MuxRoute(req.route)]
    /\ UNCHANGED << config, now, rateVars, clientVars, registryVars, sessVars, calls,
                    dispatched, handled, admitted >>

\* the handler chain has returned and the response is written
ServeMuxReturn ==
    /\ http.pc = "done"
    /\ http' = HttpStart(http.cors, http.env)
    /\ UNCHANGED << config, now, rateVars, clientVars, registryVars, sessVars, calls,
                    dispatched, handled, admitted >>

\* the /health handler
healthHandler ==
    /\ http.pc = "health"
    /\ http' = [Respond(http, 200) EXCEPT
                   !.headers = { << "Content-Type", << "application/json" >> >> },
                   !.body = << "{\"status\":\"ok\",\"service\":\"terraform-mcp-server\",\"transport\":\"streamable-http\",\"endpoint\":\"",
                               "/mcp", "\"}" >>]
    /\ UNCHANGED << config, now, rateVars, clientVars, registryVars, sessVars, calls,
                    dispatched, handled, admitted >>

\* a lookup that prefers the query parameter to the header
ContextValueQueryFirst(header, query, env) ==
    IF query # "" THEN query ELSE IF header # "" THEN header ELSE env
\* TerraformContextMiddleware, one name: header, else query parameter, else environment
ContextValue(header, query, env) ==
    IF header # "" THEN header ELSE IF query # "" THEN query ELSE env

\* TerraformContextMiddleware: the token came as a query parameter (looked at only
\* when the header is empty)
TokenInQuery(req) == req.hToken = "" /\ req.qToken # ""

\* the text of the 400 answer
ErrTokenInQuery ==
    "Terraform token should not be provided in query parameters for security reasons, use the terraform_token header"

\* Debug lines that print the values they tell about
ContextLogWithValues(ctx) ==
    (IF ctx.address # "" THEN { << "Terraform address configured via request context: ", ctx.address >> }
     ELSE {})
    \cup (IF ctx.token # "" THEN { << "Terraform token provided via request context: ", ctx.token >> }
          ELSE {})
\* the Debug lines that tell where the configuration came from
ContextLog(ctx) ==
    (IF ctx.address # "" THEN { << "Terraform address configured via request context" >> }
     ELSE {})
    \cup (IF ctx.token # "" THEN { << "Terraform token provided via request context" >> }
          ELSE {})

\* the loop over TFE_ADDRESS, TFE_TOKEN, TFE_SKIP_TLS_VERIFY, then next.ServeHTTP
TerraformContextMiddleware ==
    /\ http.pc = "context"
    /\ LET req == http.req
           ctx == [address |-> ContextValue(req.hAddress, req.qAddress, http.env.address),
                   token |-> ContextValue(req.hToken, req.qToken, http.env.token),
                   skip |-> ContextValue(req.hSkip, req.qSkip, http.env.skip)]
       IN http' = IF TokenInQuery(req)
                  THEN [Respond(Logged(http,
                                  (IF ctx.address # ""
                                   THEN { << "Terraform address configured via request context" >> }
                                   ELSE {})
                                  \cup { << "Terraform token was provided in query parameters by client ",
                                            req.remote, ", terminating request" >> }), 400)
                           EXCEPT !.body = << ErrTokenInQuery >>]
                  ELSE [Logged(http, ContextLog(ctx)) EXCEPT !.pc = "security", !.ctx = ctx]
    /\ UNCHANGED << config, now, rateVars, clientVars, registryVars, sessVars, calls,
                    dispatched, handled, admitted >>

\* a security handler whose checks do not return
ServeHTTPAlwaysDelegates(req, cors) == "delegate"
\* a security handler that lets every Origin through
ServeHTTPNoOriginCheck(req, cors) == IF req.method = "OPTIONS" THEN "preflight" ELSE "delegate"
\* a security handler that hands preflight requests to the wrapped handler
ServeHTTPNoPreflight(req, cors) ==
    IF req.origin # NoOrigin /\ ~isOriginAllowed(req.origin, cors.AllowedOrigins, cors.Mode)
    THEN "forbidden"
    ELSE "delegate"
\* a security handler that waves through every request that brings a token header
ServeHTTPTokenBypass(req, cors) ==
    IF req.hToken # "" THEN "delegate"
    ELSE IF req.origin # NoOrigin /\ ~isOriginAllowed(req.origin, cors.AllowedOrigins, cors.Mode)
    THEN "forbidden"
    ELSE IF req.method = "OPTIONS" THEN "preflight"
    ELSE "delegate"
\* securityHandler.ServeHTTP: what becomes of the request
ServeHTTP(req, cors) ==
    IF req.origin # NoOrigin /\ ~isOriginAllowed(req.origin, cors.AllowedOrigins, cors.Mode)
    THEN "forbidden"
    ELSE IF req.method = "OPTIONS" THEN "preflight"
    ELSE "delegate"

securityHandler ==
    /\ http.pc = "security"
    /\ LET outcome == ServeHTTP(http.req, http.cors)
           origin == http.req.origin
           allowed == [Logged(http, IF origin # NoOrigin
                                    THEN { << "Allowed request from origin: " >> \o origin }
                                    ELSE {})
                          EXCEPT !.headers = IF origin # NoOrigin
                                             THEN CORSHeaders(origin) ELSE {}]
       IN http' = IF outcome = "forbidden"
                  THEN [Respond(Logged(http,
                                  { << "Rejected request from unauthorized origin: " >> \o origin
                                    \o << " (CORS mode: ", http.cors.Mode, ")" >> }), 403)
                           EXCEPT !.body = << "Origin not allowed" >>]
                  ELSE IF outcome = "preflight"
                  THEN Respond(Logged(allowed,
                                 { << "Handling OPTIONS preflight request from origin: " >>
                                   \o origin }), 200)
                  ELSE [allowed EXCEPT !.pc = "mcp"]
    /\ UNCHANGED << config, now, rateVars, clientVars, registryVars, sessVars, calls,
                    dispatched, handled, admitted >>

\* CreateTfeClientForSession: the address and token a session's client is built
\* from: the context value, else the environment, else the default address
SessionContext(ctx, env) ==
    [address |-> IF ctx.address # "" THEN ctx.address
                 ELSE IF env.address # "" THEN env.address ELSE DefaultTerraformAddress,
     token |-> IF ctx.token # "" THEN ctx.token ELSE env.token]

\* the MCP handler (baseStreamableServer) answers the request
baseStreamableServer ==
    /\ http.pc = "mcp"
    /\ http' = [Respond(http, 200) EXCEPT !.mcp = TRUE]
    /\ UNCHANGED << config, now, rateVars, clientVars, registryVars, sessVars, calls,
                    dispatched, handled, admitted >>

\* the MCP handler answers an initialize request: it registers a new session
\* with the request's context, which runs NewSessionHandler
\* what NewSessionHandler and the functions it calls write to the log for a
\* session whose context resolves to ctx; url.Parse names the address it rejects
NewSessionHandlerLog(s, ctx) ==
    (IF ctx.token = ""
     THEN { << "No Terraform token provided, TFE client will not be available" >>,
            << "required input: no Terraform token provided" >>,
            << "NewSessionHandler failed to create TFE client" >>,
            << "Session has no valid TFE client - TFE tools will not be available" >> }
     ELSE IF ~NewTfeClientOk(ctx)
     THEN { << "Failed to create a Terraform Cloud/Enterprise client: ", ctx.address >>,
            << "creating TFE client", ctx.address >>,
            << "NewSessionHandler failed to create TFE client", ctx.address >>,
            << "Session has no valid TFE client - TFE tools will not be available" >> }
     ELSE { << "Created TFE client", "session_id", s >>,
            << "Session registered with TFE client" >>,
            << "Session has valid TFE client - registered with tool registry" >> }
          \cup (IF tfeToolsRegistered THEN {}
                ELSE { << "Registering TFE tools - first session with valid TFE client detected" >> }))
    \cup { << "Created HTTP client", "session_id", s >> }

baseStreamableServerInitialize(s) ==
    /\ http.pc = "mcp"
    /\ http.req.method = "POST"
    /\ NewSessionHandler(s, SessionContext(http.ctx, http.env))
    /\ http' = [Respond(Logged(http, NewSessionHandlerLog(s, SessionContext(http.ctx, http.env))),
                        200)
                   EXCEPT !.mcp = TRUE, !.session = s]

\* NewServer + RegisterTools: NewRateLimitMiddleware(config), registerDynamicTools,
\* empty client maps, no session yet
NewServer(cfg) ==
    /\ config = cfg
    /\ now = 0
    /\ globalTokens = NewLimiter(cfg.GlobalBurst)
    /\ sessionLimiters = [s \in Sessions |-> 0]
    /\ limiterTokens = << >>
    /\ limiterOwner = << >>
    /\ activeHttpClients = [s \in Sessions |-> NoClient]
    /\ activeTfeClients = [s \in Sessions |-> NoClient]
    /\ httpCreated = [s \in Sessions |-> 0]
    /\ tfeCreated = [s \in Sessions |-> 0]
    /\ sessionsWithTFE = {}
    /\ tfeToolsRegistered = FALSE
    /\ toolSetsAdded = 0
    /\ mu = MuFree
    /\ sess = [s \in Sessions |-> "none"]
    /\ sessCtx = [s \in Sessions |-> [token |-> "", address |-> DefaultTerraformAddress]]
    /\ calls = [c \in Calls |-> IdleCall]
    /\ dispatched = 0
    /\ handled = [t \in 0..MaxTime |-> [s \in Sessions \cup {NoSession} |-> 0]]
    /\ admitted = [t \in 0..MaxTime |-> 0]

\* the server started on the stdio transport: no HTTP front
ServerStarted(cfg) ==
    /\ NewServer(cfg)
    /\ http = HttpIdle

(***************************************************************************)
(* Spec: sessions come and go while calls are in flight, all within one    *)
(* refill interval of the token buckets.                                   *)
(***************************************************************************)
Init == ServerStarted(RoomyConfig)

Next ==
    \/ \E s \in Sessions, ctx \in SessionContexts : OnRegisterSession(s, ctx)
    \/ \E s \in Sessions : EndSessionHandlerUnregister(s)
    \/ \E s \in Sessions : EndSessionHandlerDeleteTfe(s)
    \/ \E s \in Sessions : EndSessionHandlerDeleteHttp(s)
    \/ \E c \in Calls : callTool(c)
    \/ \E c \in Calls : readResource(c)
    \/ \E c \in Calls : getSessionLimiterRead(c)
    \/ \E c \in Calls : getSessionLimiterWrite(c)
    \/ \E c \in Calls : wrappedHandlerCheck(c)
    \/ \E c \in Calls : wrappedHandlerDoubleCheck(c)
    \/ \E c \in Calls : wrappedHandlerRegister(c)
    \/ \E c \in Calls : GetTfeClientFromContext(c)
    \/ \E c \in Calls : CreateTfeClientForSession(c)
    \/ \E c \in Calls : GetHttpClientFromContext(c)
    \/ \E c \in Calls : CreateHttpClientForSession(c)

Spec == Init /\ [][Next]_vars

(***************************************************************************)
(* SpecRate: the rate limiter over time.  Sessions register, tool calls    *)
(* (with and without a session in their context) run through the          *)
(* middleware, and the buckets refill every tick; no session ends.         *)
(***************************************************************************)
\* the contexts of sessions here: with and without a token
RateContexts == { ctx \in SessionContexts : ctx.address = DefaultTerraformAddress }

InitRate == \E cfg \in Configs : ServerStarted(cfg)

NextRate ==
    \/ \E s \in Sessions, ctx \in RateContexts : OnRegisterSession(s, ctx)
    \/ \E c \in Calls : callTool(c)
    \/ \E c \in Calls : callToolNoSession(c)
    \/ \E c \in Calls : getSessionLimiterRead(c)
    \/ \E c \in Calls : getSessionLimiterWrite(c)
    \/ \E c \in Calls : wrappedHandlerCheck(c)
    \/ \E c \in Calls : wrappedHandlerDoubleCheck(c)
    \/ \E c \in Calls : GetTfeClientFromContext(c)
    \/ \E c \in Calls : GetHttpClientFromContext(c)
    \/ Tick

SpecRate == InitRate /\ [][NextRate]_vars

(***************************************************************************)
(* SpecHTTP: the server on the streamable-HTTP transport, requests served  *)
(* one after the other through the admission chain.                        *)
(***************************************************************************)
InitHTTP ==
    /\ NewServer(RoomyConfig)
    /\ \E cors \in CORSConfigs, env \in Environments : http = HttpStart(cors, env)

NextHTTP ==
    \/ \E req \in Requests : ServeMux(req)
    \/ ServeMuxReturn
    \/ healthHandler
    \/ TerraformContextMiddleware
    \/ securityHandler
    \/ baseStreamableServer
    \/ \E s \in Sessions : baseStreamableServerInitialize(s)

SpecHTTP == InitHTTP /\ [][NextHTTP]_vars

(***************************************************************************)
(* SpecModes: the process as runStdioServer or as runHTTPServer starts it. *)
(* Both build the server with NewServer and registerToolsAndResources; the *)
(* standard-stream driver registers its one session when it starts to      *)
(* listen and hands every frame to the server, the HTTP driver passes      *)
(* every request through the admission chain first.  No session ends.      *)
(***************************************************************************)
ModeEnvironments ==
    { [token |-> "", address |-> "", skip |-> ""],
      [token |-> "envtok", address |-> "", skip |-> ""],
      [token |-> "envtok", address |-> MalformedAddress, skip |-> ""] }

ModeRequests ==
    [route : {"/mcp"}, method : {"POST"}, origin : {NoOrigin, AppOrigin},
     remote : {"198.51.100.7:4711"},
     hToken : {"", "tok"}, qToken : {""}, qLowerToken : {""},
     hAddress : {"", MalformedAddress}, qAddress : {""}, hSkip : {""}, qSkip : {""}]

\* the http record of a process that serves standard input: no HTTP server
StdioStart(env) ==
    [HttpStart([Mode |-> "strict", AllowedOrigins |-> << >>], env) EXCEPT !.pc = "stdio"]

InitModes ==
    /\ \E cfg \in {TestConfig, RoomyConfig} : NewServer(cfg)
    /\ \E env \in ModeEnvironments :
          \/ http = StdioStart(env)
          \/ http = HttpStart([Mode |-> "strict", AllowedOrigins |-> << >>], env)

\* stdioServer.Listen: registers the session of the process, whose context
\* carries no value of the context middleware, and runs NewSessionHandler
StdioListen ==
    /\ http.pc = "stdio"
    /\ NewSessionHandler("s1", SessionContext(NoContext, http.env))
    /\ UNCHANGED http

\* a tools/call frame read from standard input
StdioCallTool(c) ==
    /\ http.pc = "stdio"
    /\ callTool(c)

\* an HTTP driver whose server was built without the rate-limit middleware
baseStreamableServerCallToolUnlimited(c) ==
    /\ http.pc = "mcp"
    /\ http.req.method = "POST"
    /\ CanServe(c)
    /\ dispatched < MaxCalls
    /\ \E sid \in LiveSessions, tool \in {"registry", "tfe"} :
          /\ tool = "tfe" => tfeToolsRegistered
          /\ calls' = [calls EXCEPT ![c] = EnterHandler(NewCall(sid, tool))]
    /\ dispatched' = dispatched + 1
    /\ http' = [Respond(http, 200) EXCEPT !.mcp = TRUE]
    /\ UNCHANGED << config, now, rateVars, clientVars, registryVars, sessVars,
                    handled, admitted >>
\* a tools/call request that has passed the admission chain
baseStreamableServerCallTool(c) ==
    /\ http.pc = "mcp"
    /\ http.req.method = "POST"
    /\ HandleToolCall(c)
    /\ http' = [Respond(http, 200) EXCEPT !.mcp = TRUE]

NextModes ==
    \/ StdioListen
    \/ \E c \in Calls : StdioCallTool(c)
    \/ \E req \in ModeRequests : ServeMux(req)
    \/ ServeMuxReturn
    \/ TerraformContextMiddleware
    \/ securityHandler
    \/ \E s \in Sessions : baseStreamableServerInitialize(s)
    \/ \E c \in Calls : baseStreamableServerCallTool(c)
    \/ \E c \in Calls : getSessionLimiterRead(c)
    \/ \E c \in Calls : getSessionLimiterWrite(c)
    \/ \E c \in Calls : wrappedHandlerCheck(c)
    \/ \E c \in Calls : wrappedHandlerDoubleCheck(c)
    \/ \E c \in Calls : GetTfeClientFromContext(c)
    \/ \E c \in Calls : GetHttpClientFromContext(c)

SpecModes == InitModes /\ [][NextModes]_vars

(***************************************************************************)
(* SpecContext: the same chain, fed requests to the MCP endpoint that vary *)
(* every source of the three context values, under every environment; the  *)
(* address header may be one tfe.NewClient rejects.                        *)
(***************************************************************************)
ContextEnvironments ==
    [token : {"", "envtok"}, address : {"", "https://env.example"}, skip : {"", "true"}]

ContextRequests ==
    { req \in [route : {"/mcp"}, method : {"POST", "GET"}, origin : {NoOrigin},
               remote : {"198.51.100.7:4711"},
               hToken : {"", "tok"}, qToken : {"", "qtok"}, qLowerToken : {"", "secret"},
               hAddress : {"", "https://h.example", MalformedAddress},
               qAddress : {"", "https://q.example"},
               hSkip : {"", "false"}, qSkip : {"", "1"}] :
        req.qToken = "" \/ req.qLowerToken = "" }

InitContext ==
    /\ NewServer(RoomyConfig)
    /\ \E env \in ContextEnvironments :
          http = HttpStart([Mode |-> "strict", AllowedOrigins |-> << >>], env)

NextContext ==
    \/ \E req \in ContextRequests : ServeMux(req)
    \/ ServeMuxReturn
    \/ TerraformContextMiddleware
    \/ securityHandler
    \/ baseStreamableServer
    \/ \E s \in Sessions : baseStreamableServerInitialize(s)

SpecContext == InitContext /\ [][NextContext]_vars

(***************************************************************************)
(* Claims about sessions, client caches and the credential gate (Spec).    *)
(***************************************************************************)

\* C1: a credentialed tool called on a session that has no backend client
\* (whenever the wrapper looks) returns the credential diagnostic and its real
\* handler is never invoked.
C1_CredentialGate ==
    \A c \in Calls :
        (calls[c].tool = "tfe" /\ calls[c].sid # NoSession /\ calls[c].lacked)
            => /\ ~calls[c].invoked
               /\ Finished(c) => calls[c].result = ErrCredential

\* C2: once EndSessionHandler(S) has run, GetHttpClient(S) and GetTfeClient(S)
\* are nil and HasSessionWithTFE(S) is false.
C2_TeardownClearsLookups ==
    \A s \in EndedSessions :
        /\ GetHttpClient(s) = NoClient
        /\ GetTfeClient(s) = NoClient
        /\ ~HasSessionWithTFE(s)

\* C3: every key of activeHttpClients and of activeTfeClients is the ID of a
\* session that has been registered and not yet torn down.
C3_OnlyLiveKeys ==
    \A s \in Sessions :
        (activeHttpClients[s] # NoClient \/ activeTfeClients[s] # NoClient)
            => sess[s] \in {"live", "end_tfe", "end_http"}

\* C4: a call whose context carries session S only ever obtains a client that
\* was created for and stored under S; no client of another session reaches it.
C4_SessionIsolation ==
    /\ \A c \in Calls :
          calls[c].client # NoClient => calls[c].client.owner = calls[c].sid
    /\ \A s \in Sessions :
          /\ activeHttpClients[s] # NoClient => activeHttpClients[s].owner = s
          /\ activeTfeClients[s] # NoClient => activeTfeClients[s].owner = s

\* C4 witness: with both sessions holding clients, a call of s2 finished with
\* the client of s2
C4_Witness ==
    /\ activeHttpClients["s1"] # NoClient
    /\ activeHttpClients["s2"] # NoClient
    /\ \E c \in Calls :
          /\ Finished(c)
          /\ calls[c].sid = "s2"
          /\ calls[c].client.owner = "s2"

\* C8: after EndSessionHandler(S) has run, sessionLimiters has no entry for S:
\* the map is what a sweep over the sessions not yet ended would leave.
C8_BucketsRemovedAtEnd ==
    sessionLimiters = CleanupSessions(Sessions \ EndedSessions)

(***************************************************************************)
(* Claims about the rate limiter (SpecRate).                               *)
(***************************************************************************)
\* the goroutine that takes the next call
Serving(c) == CanServe(c) /\ dispatched' = dispatched + 1

\* goroutine c takes Allow() of its session's bucket in this step
SessionCheck(c) ==
    /\ calls[c].pc \in {"rl_rlock", "rl_wlock"}
    /\ calls'[c].pc \notin {"rl_rlock", "rl_wlock"}

\* the tokens that bucket holds when asked (a bucket created in the step is full)
SessionTokensSeen(c) ==
    IF sessionLimiters[calls[c].sid] # 0
    THEN limiterTokens[sessionLimiters[calls[c].sid]]
    ELSE config.PerSessionBurst

\* the calls of session s that reached their handler within ticks t1..t2
HandledOf(s, t1, t2) == handled[t2][s] - (IF t1 = 0 THEN 0 ELSE handled[t1 - 1][s])

\* all calls that reached their handler within ticks t1..t2
HandledAll(t1, t2) ==
    HandledOf("s1", t1, t2) + HandledOf("s2", t1, t2) + HandledOf(NoSession, t1, t2)

\* the calls the global limiter let pass within ticks t1..t2
Admitted(t1, t2) == admitted[t2] - (IF t1 = 0 THEN 0 ELSE admitted[t1 - 1])

\* C5: when the global bucket has no token a callTool is rejected with the
\* global error and nothing behind the middleware runs; with global burst 1,
\* calls that follow the first one with no pause find the bucket empty.
C5_GlobalLimit ==
    /\ [][\A c \in Calls :
            (Serving(c) /\ globalTokens = 0)
                => /\ calls'[c].pc = "done"
                   /\ calls'[c].result = ErrGlobal
                   /\ ~calls'[c].invoked /\ ~calls'[c].gate]_vars
    /\ [](\A c \in Calls :
            calls[c].result = ErrGlobal
                => Finished(c) /\ ~calls[c].invoked /\ ~calls[c].gate /\ ~calls[c].stok)
    /\ []((config.GlobalBurst = 1 /\ now = 0 /\ dispatched >= 1) => globalTokens = 0)

\* C5 witness: burst 1, no tick yet: the first call succeeded, the next one got
\* the global error
C5_Witness ==
    /\ config.GlobalBurst = 1
    /\ now = 0
    /\ dispatched = 2
    /\ calls["c1"].pc = "done" /\ calls["c1"].result = ResultOk
    /\ calls["c2"].pc = "done" /\ calls["c2"].result = ErrGlobal

\* C6: a call with a session ID that passed the global check is checked against
\* the bucket of that session, created on first use with the configured burst;
\* an empty bucket rejects it with the session error before any handler.  A call
\* without session is checked globally only and creates no bucket.
C6_SessionLimit ==
    /\ [][\A c \in Calls :
            /\ (SessionCheck(c) /\ SessionTokensSeen(c) = 0)
                  => /\ calls'[c].pc = "done"
                     /\ calls'[c].result = ErrSession
                     /\ ~calls'[c].invoked /\ ~calls'[c].gate
            /\ (SessionCheck(c) /\ sessionLimiters[calls[c].sid] = 0)
                  => /\ sessionLimiters'[calls[c].sid] = Len(limiterTokens) + 1
                     /\ limiterOwner'[Len(limiterTokens) + 1] = calls[c].sid
                     /\ limiterTokens'[Len(limiterTokens) + 1] = config.PerSessionBurst - 1]_vars
    /\ [](\A c \in Calls :
            /\ (calls[c].sid # NoSession /\ calls[c].tool # "resource"
                    /\ (calls[c].gate \/ calls[c].invoked))
                  => calls[c].stok
            /\ calls[c].result = ErrSession => Finished(c) /\ ~calls[c].invoked /\ ~calls[c].gate
            /\ calls[c].sid = NoSession
                  => ~calls[c].stok /\ calls[c].pc \notin {"rl_rlock", "rl_wlock"})
    /\ [](\A i \in DOMAIN limiterOwner :
            limiterOwner[i] \in Sessions /\ sessionLimiters[limiterOwner[i]] = i)

\* C6 witness: a session's call was rejected by its own bucket while a call
\* without session passed on the global check alone
C6_Witness ==
    /\ \E c \in Calls : Finished(c) /\ calls[c].result = ErrSession /\ calls[c].gtok
    /\ HandledOf(NoSession, now, now) > 0

\* C7 as stated: in every window of ticks t1..t2 at most GlobalBurst +
\* GlobalLimit*(t2-t1) calls reach their handler in all, and at most
\* PerSessionBurst + PerSessionLimit*(t2-t1) of any one session.
C7_HandlerReachWindow ==
    \A t1 \in 0..MaxTime : \A t2 \in t1..MaxTime :
        /\ HandledAll(t1, t2) <= config.GlobalBurst + config.GlobalLimit * (t2 - t1)
        /\ \A s \in Sessions :
              HandledOf(s, t1, t2)
                  <= config.PerSessionBurst + config.PerSessionLimit * (t2 - t1)

\* C7 (amended): in every window of ticks t1..t2 the global limiter lets at
\* most GlobalBurst + GlobalLimit*(t2-t1) calls pass, the limiter of a session
\* at most PerSessionBurst + PerSessionLimit*(t2-t1) of that session's calls,
\* and a call reaches its handler only after the global limiter let it pass.
C7_RateMonotonicity ==
    /\ \A t1 \in 0..MaxTime : \A t2 \in t1..MaxTime :
          /\ Admitted(t1, t2) <= config.GlobalBurst + config.GlobalLimit * (t2 - t1)
          /\ \A s \in Sessions :
                HandledOf(s, t1, t2)
                    <= config.PerSessionBurst + config.PerSessionLimit * (t2 - t1)
    /\ \A t \in 0..MaxTime : HandledAll(0, t) <= Admitted(0, t)

\* C7 witness: a window over a refill in which both bounds are attained
C7_Witness ==
    /\ now >= 1
    /\ Admitted(0, 1) = config.GlobalBurst + config.GlobalLimit
    /\ HandledOf("s1", 0, 1) = config.PerSessionBurst + config.PerSessionLimit

\* C9: the order is rate limiter, credential gate, handler: a call denied by
\* the rate limiter reaches neither gate nor handler, and whatever reaches the
\* gate (also a call the gate then rejects) has taken its tokens first.
C9_MiddlewareOrder ==
    \A c \in Calls :
        /\ calls[c].result \in {ErrGlobal, ErrSession} => ~calls[c].gate /\ ~calls[c].invoked
        /\ (calls[c].tool # "resource" /\ (calls[c].gate \/ calls[c].invoked))
              => /\ calls[c].gtok
                 /\ calls[c].sid # NoSession => calls[c].stok
        /\ (calls[c].tool = "tfe" /\ calls[c].invoked) => calls[c].gate
        /\ calls[c].result = ErrCredential => calls[c].gate /\ ~calls[c].invoked

\* C9 witness: a credentialed call on a session without credentials was rejected
\* by the gate after taking a global and a session token
C9_Witness ==
    \E c \in Calls :
        /\ Finished(c)
        /\ calls[c].result = ErrCredential
        /\ calls[c].gtok /\ calls[c].stok
        /\ GetTfeClient(calls[c].sid) = NoClient

(***************************************************************************)
(* Claims about the HTTP admission chain (SpecHTTP).                       *)
(***************************************************************************)
\* the responses the admission chain gives by itself: 400, 403, and 200 to a
\* preflight on the MCP endpoint
AnsweredByAdmission ==
    \/ http.status \in {400, 403}
    \/ /\ http.status = 200
       /\ http.req.method = "OPTIONS"
       /\ http.req.route \in {"/mcp", "/mcp/"}

\* C10: the MCP handler is invoked for a request only if the request is on the
\* MCP endpoint, does not carry the token as its query parameter in place of the
\* header, has no Origin or an allowed one, and is not OPTIONS; a request
\* answered 400, 403 or 200-to-preflight never reaches the MCP handler and
\* creates no session.
C10_AdmissionBeforeHandling ==
    /\ [](http.mcp =>
            /\ http.req.route \in {"/mcp", "/mcp/"}
            /\ ~(http.req.hToken = "" /\ http.req.qToken # "")
            /\ \/ http.req.origin = NoOrigin
               \/ isOriginAllowed(http.req.origin, http.cors.AllowedOrigins, http.cors.Mode)
            /\ http.req.method # "OPTIONS")
    /\ [](AnsweredByAdmission => ~http.mcp /\ http.session = NoSession)
    /\ [][sess' # sess =>
            /\ http.pc = "mcp"
            /\ http'.mcp /\ http'.session # NoSession
            /\ sess'[http'.session] = "live" /\ sess[http'.session] = "none"]_vars

\* C10 witness: a cross-origin POST that also carries a token query parameter
\* next to the header passed both checks, reached the MCP handler and created a
\* session
C10_Witness ==
    /\ http.pc = "done"
    /\ http.mcp
    /\ http.req.origin = AppOrigin
    /\ http.req.qToken # ""
    /\ http.session = "s1"
    /\ sess["s1"] = "live"

(***************************************************************************)
(* Claims about the admission chain of the HTTP transport (SpecHTTP,       *)
(* SpecContext).                                                           *)
(***************************************************************************)

\* the request in hand carries an Origin the configured policy rejects
OriginRejected ==
    /\ http.req.origin # NoOrigin
    /\ ~isOriginAllowed(http.req.origin, http.cors.AllowedOrigins, http.cors.Mode)

AccessControlNames ==
    {"Access-Control-Max-Age", "Access-Control-Allow-Origin",
     "Access-Control-Allow-Methods", "Access-Control-Allow-Headers"}
AccessControlHeaders(headers) == { hd \in headers : hd[1] \in AccessControlNames }

\* C11: a request that reaches the security handler with a non-empty Origin the
\* policy does not allow is answered 403 by that very step, whatever its method,
\* with no Access-Control-* header, and the wrapped handler never runs for it.
C11_OriginRejection ==
    /\ [][ (http.pc = "security" /\ OriginRejected) =>
              /\ http'.pc = "done"
              /\ http'.status = 403
              /\ AccessControlHeaders(http'.headers) = {}
              /\ ~http'.mcp ]_vars
    /\ [](OriginRejected /\ MuxRoute(http.req.route) = "context" =>
              /\ http.pc # "mcp"
              /\ ~http.mcp
              /\ AccessControlHeaders(http.headers) = {})
C11_Witness ==
    /\ http.pc = "done"
    /\ http.status = 403
    /\ http.req.method = "POST"
    /\ http.req.origin = LookalikeOrigin
    /\ http.cors.Mode = "development"

\* C12: a request to the MCP endpoint whose query string carries the token (with
\* or without a token header, under either spelling of the parameter) is
\* answered 400 with the fixed message and goes no further than the context
\* middleware.
C12_TokenInQueryForbidden ==
    (/\ MuxRoute(http.req.route) = "context"
     /\ (http.req.qToken # "" \/ http.req.qLowerToken # ""))
    => /\ http.pc \in {"context", "done"}
       /\ ~http.mcp
       /\ http.pc = "done" => (http.status = 400 /\ http.body = << ErrTokenInQuery >>)

\* C13: an OPTIONS request that reaches the security handler with an allowed or
\* absent Origin is answered 200 by that step, after the CORS headers were set
\* (for a non-empty Origin), and the wrapped handler never runs for it; with a
\* rejected Origin it is answered 403 without Access-Control-* headers.
C13_PreflightShortCircuit ==
    /\ [][ (http.pc = "security" /\ http.req.method = "OPTIONS") =>
              /\ http'.pc = "done"
              /\ ~http'.mcp
              /\ IF OriginRejected
                 THEN http'.status = 403 /\ AccessControlHeaders(http'.headers) = {}
                 ELSE /\ http'.status = 200
                      /\ http'.headers = IF http.req.origin = NoOrigin THEN {}
                                         ELSE CORSHeaders(http.req.origin) ]_vars
    /\ [](http.req.method = "OPTIONS" => http.pc # "mcp" /\ ~http.mcp)
C13_Witness ==
    /\ http.pc = "done"
    /\ http.status = 200
    /\ http.req.method = "OPTIONS"
    /\ http.req.origin = AppOrigin
    /\ << "Access-Control-Allow-Origin", AppOrigin >> \in http.headers
    /\ ~http.mcp

\* the response headers the security handler and the handler behind it have set
SecurityHeadersSet(h) ==
    IF h.req.origin # NoOrigin
       /\ isOriginAllowed(h.req.origin, h.cors.AllowedOrigins, h.cors.Mode)
    THEN { hd \in h.headers :
             \/ hd = << "Access-Control-Allow-Origin", h.req.origin >>
             \/ hd = << "Access-Control-Allow-Methods", << "GET, POST, OPTIONS" >> >>
             \/ hd = << "Access-Control-Allow-Headers", << "Content-Type, Mcp-Session-Id" >> >>
             \/ hd = << "Access-Control-Max-Age", << "3600" >> >> }
    ELSE {}

\* C14: the security handler sets the CORS headers (Allow-Origin echoing the
\* Origin, Allow-Methods "GET, POST, OPTIONS", Allow-Headers "Content-Type,
\* Mcp-Session-Id", Max-Age 3600) on the response exactly when the request it
\* received carries a non-empty allowed Origin; a request without Origin passes
\* it in every mode and gets none of them.
C14_CORSHeaders ==
    /\ [][ http.pc = "security" =>
              /\ AccessControlHeaders(http'.headers) = SecurityHeadersSet(http')
              /\ Cardinality(AccessControlHeaders(http'.headers)) =
                    IF http.req.origin # NoOrigin /\ ~OriginRejected THEN 4 ELSE 0
              /\ http.req.origin = NoOrigin =>
                    /\ http'.headers = {}
                    /\ IF http.req.method = "OPTIONS"
                       THEN http'.pc = "done" /\ http'.status = 200
                       ELSE http'.pc = "mcp" ]_vars
    /\ [](AccessControlHeaders(http.headers) # {} =>
              /\ http.req.origin # NoOrigin
              /\ ~OriginRejected
              /\ http.pc \in {"mcp", "done"})
    /\ [](http.mcp =>
              Cardinality(AccessControlHeaders(http.headers)) =
                 IF http.req.origin # NoOrigin THEN 4 ELSE 0)
C14_Witness ==
    /\ http.mcp
    /\ http.cors.Mode = "development"
    /\ http.req.origin = LocalOrigin
    /\ << "Access-Control-Allow-Origin", LocalOrigin >> \in http.headers

\* what became of a request: refused (400, 403) or let through
Decision(h) == IF h.pc = "done" /\ h.status \in {400, 403} THEN "deny" ELSE "admit"

\* the decision as a function of the configuration, the Origin and the method
\* alone (the method turns out not to matter)
DecisionByOrigin(cors, origin, method) ==
    IF origin # NoOrigin /\ ~isOriginAllowed(origin, cors.AllowedOrigins, cors.Mode)
    THEN "deny"
    ELSE "admit"

\* C15 as stated: under a fixed configuration the admit/deny decision for a
\* request to the MCP endpoint is determined by its Origin and method, whatever
\* its other headers and query parameters.
C15_RequestDeterminism ==
    (MuxRoute(http.req.route) = "context" /\ http.pc \in {"mcp", "done"})
    => Decision(http) = DecisionByOrigin(http.cors, http.req.origin, http.req.method)

\* C15 amended: under a fixed configuration the decision the security handler
\* takes on a request it receives is determined by the Origin and the method,
\* whatever the token, address and other inputs of the request.
C15_GateDeterminism ==
    [][ http.pc = "security" =>
           /\ http'.pc \in {"mcp", "done"}
           /\ Decision(http') =
                 DecisionByOrigin(http.cors, http.req.origin, http.req.method) ]_vars
C15_Witness ==
    /\ http.pc = "done"
    /\ http.status = 403
    /\ http.req.hToken # ""
    /\ http.req.qAddress # ""
    /\ http.req.origin = AppOrigin
    /\ http.req.method = "GET"

\* C16: on every route the server exposes, no request carrying a non-empty
\* Origin that the policy rejects is answered with a 2xx status.
C16_OriginGateEveryRoute ==
    (http.pc = "done" /\ OriginRejected) => ~(http.status \in 200..299)

\* the request in hand has passed the context middleware
ContextBound ==
    \/ http.pc \in {"security", "mcp"}
    \/ http.pc = "done" /\ MuxRoute(http.req.route) = "context" /\ http.status # 400

\* C17: each of the three context values is, on its own sources alone, the
\* header value if non-empty, else the query value if non-empty, else the
\* environment variable, else ""; the token is never taken from the query.
C17_ContextPrecedence ==
    ContextBound =>
       /\ http.ctx.address =
             (IF http.req.hAddress # "" THEN http.req.hAddress
              ELSE IF http.req.qAddress # "" THEN http.req.qAddress
              ELSE http.env.address)
       /\ http.ctx.skip =
             (IF http.req.hSkip # "" THEN http.req.hSkip
              ELSE IF http.req.qSkip # "" THEN http.req.qSkip
              ELSE http.env.skip)
       /\ http.ctx.token =
             (IF http.req.hToken # "" THEN http.req.hToken ELSE http.env.token)
       /\ http.ctx.token \notin ({http.req.qToken, http.req.qLowerToken} \ {""})
C17_Witness ==
    /\ http.pc = "mcp"
    /\ http.req.hAddress = "" /\ http.req.qAddress # ""
    /\ http.req.hToken # "" /\ http.req.qToken # ""
    /\ http.req.hSkip = "" /\ http.req.qSkip = "" /\ http.env.skip # ""
    /\ http.ctx = [address |-> http.req.qAddress, token |-> http.req.hToken,
                   skip |-> http.env.skip]

\* the token values the server was handed: by the request and by the environment
SuppliedTokens ==
    {http.req.hToken, http.req.qToken, http.req.qLowerToken, http.env.token} \ {""}

\* the pieces of a message
Pieces(msg) == { msg[i] : i \in DOMAIN msg }

\* C18: whatever the outcome of a request (passed on, 400, 403, session created
\* with or without a backend client), no log line, response body or response
\* header written for it contains the value of a supplied token.
C18_TokenOpacity ==
    /\ \A line \in http.log : Pieces(line) \cap SuppliedTokens = {}
    /\ Pieces(http.body) \cap SuppliedTokens = {}
    /\ \A hd \in http.headers : Pieces(hd[2]) \cap SuppliedTokens = {}
C18_Witness ==
    /\ http.pc = "done"
    /\ http.session # NoSession
    /\ http.req.hToken # ""
    /\ http.req.hAddress = MalformedAddress
    /\ << "Terraform token provided via request context" >> \in http.log
    /\ << "Failed to create a Terraform Cloud/Enterprise client: ", MalformedAddress >> \in http.log

(***************************************************************************)
(* Claims about the dynamic tool registry (Spec).                          *)
(***************************************************************************)

\* C19: tfeToolsRegistered goes from false to true at most once and never back,
\* and the credentialed tool set is added to the server at most once, under
\* every interleaving of RegisterSessionWithTFE (from the session hook and from
\* the tool wrapper) and UnregisterSessionWithTFE.
C19_PublishOnce ==
    /\ [][ tfeToolsRegistered => tfeToolsRegistered' ]_vars
    /\ [][ toolSetsAdded' # toolSetsAdded =>
              /\ ~tfeToolsRegistered /\ tfeToolsRegistered'
              /\ toolSetsAdded' = toolSetsAdded + 1 ]_vars
    /\ [](toolSetsAdded <= 1)
    /\ [](tfeToolsRegistered <=> toolSetsAdded = 1)
C19_Witness ==
    /\ tfeToolsRegistered
    /\ toolSetsAdded = 1
    /\ sessionsWithTFE = {}
    /\ \A s \in Sessions : sess[s] = "ended" /\ tfeCreated[s] > 0

\* C20: the server starts with tfeToolsRegistered false and no credentialed tool
\* set added; the flag turns true only in a step that registers a session for
\* which a backend client was created, so tfeToolsRegistered implies that some
\* session was reported with a backend client; until then no credentialed tool
\* is in the catalog and none is called.
C20_LazyRegistration ==
    /\ (~tfeToolsRegistered /\ toolSetsAdded = 0 /\ sessionsWithTFE = {})
    /\ [][ (~tfeToolsRegistered /\ tfeToolsRegistered') =>
              \E s \in sessionsWithTFE' \ sessionsWithTFE :
                  /\ tfeCreated'[s] > 0
                  /\ activeTfeClients'[s] # NoClient ]_vars
    /\ [](tfeToolsRegistered => \E s \in Sessions : tfeCreated[s] > 0)
    /\ [](~tfeToolsRegistered =>
              /\ toolSetsAdded = 0
              /\ sessionsWithTFE = {}
              /\ \A c \in Calls : calls[c].tool # "tfe")
C20_Witness ==
    /\ tfeToolsRegistered
    /\ sess["s1"] = "live" /\ sessCtx["s1"].token = "" /\ tfeCreated["s1"] = 0
    /\ sess["s2"] = "live" /\ "s2" \in sessionsWithTFE

(***************************************************************************)
(* Claims about what a session start leaves behind (Spec).                 *)
(***************************************************************************)

\* C21: when NewSessionHandler(S) has returned, a general HTTP client of S is
\* stored under S whether or not the backend client could be built (empty
\* token, malformed address), and it stays there while the session is live, so
\* the session goes on with general-only capability.
C21_HttpClientAlways ==
    /\ [][ \A s \in Sessions :
              (sess[s] = "none" /\ sess'[s] = "live") =>
                 /\ activeHttpClients'[s] # NoClient
                 /\ activeHttpClients'[s].owner = s
                 /\ ~NewTfeClientOk(sessCtx'[s]) => activeTfeClients'[s] = NoClient ]_vars
    /\ [](\A s \in LiveSessions : activeHttpClients[s] # NoClient)
C21_Witness ==
    /\ sess["s1"] = "live"
    /\ sessCtx["s1"].token # "" /\ sessCtx["s1"].address = MalformedAddress
    /\ activeTfeClients["s1"] = NoClient
    /\ \E c \in Calls :
          /\ calls[c].pc = "done" /\ calls[c].sid = "s1" /\ calls[c].tool = "registry"
          /\ calls[c].result = ResultOk
          /\ calls[c].client = activeHttpClients["s1"]
          /\ calls[c].client # NoClient

\* C22: a backend client is built and stored for a session only when the token
\* resolved for it is non-empty; with an empty token no entry is ever added to
\* activeTfeClients, and the session is live and served all the same.
C22_NoTokenNoBackendClient ==
    /\ [](\A s \in Sessions :
              (sess[s] # "none" /\ sessCtx[s].token = "") =>
                 /\ activeTfeClients[s] = NoClient
                 /\ tfeCreated[s] = 0
                 /\ s \notin sessionsWithTFE)
    /\ [][ \A s \in Sessions :
              activeTfeClients'[s] \notin {NoClient, activeTfeClients[s]} =>
                 sessCtx'[s].token # "" ]_vars
C22_Witness ==
    /\ sess["s1"] = "live"
    /\ sessCtx["s1"].token = ""
    /\ activeTfeClients["s1"] = NoClient
    /\ activeHttpClients["s1"] # NoClient
    /\ \E c \in Calls :
          /\ calls[c].pc = "done" /\ calls[c].sid = "s1" /\ calls[c].tool = "tfe"
          /\ calls[c].result = ErrCredential

\* C23: right after NewSessionHandler(S), HasSessionWithTFE(S) is true exactly
\* when GetTfeClient(S) is present, and this stays so while S is live.
C23_NotifiedIffClient ==
    /\ [][ \A s \in Sessions :
              (sess[s] = "none" /\ sess'[s] = "live") =>
                 ((s \in sessionsWithTFE') <=> (activeTfeClients'[s] # NoClient)) ]_vars
    /\ [](\A s \in LiveSessions : HasSessionWithTFE(s) <=> (GetTfeClient(s) # NoClient))
C23_Witness ==
    /\ sess["s1"] = "live" /\ HasSessionWithTFE("s1") /\ GetTfeClient("s1") # NoClient
    /\ sess["s2"] = "live" /\ ~HasSessionWithTFE("s2") /\ GetTfeClient("s2") = NoClient
    /\ sessCtx["s2"].address = MalformedAddress

(***************************************************************************)
(* Claims about client creation under concurrent requests (Spec).          *)
(***************************************************************************)

\* C24: a client is created for a session only when none is stored for it, so
\* two requests that both miss the client of their session end up with one
\* client object between them (double-checked initialisation), for the general
\* HTTP client and for the backend client.
C24_OneClientPerSession ==
    [][ \A s \in Sessions :
           /\ httpCreated'[s] # httpCreated[s] => activeHttpClients[s] = NoClient
           /\ tfeCreated'[s] # tfeCreated[s] => activeTfeClients[s] = NoClient ]_vars

(***************************************************************************)
(* Claims about the two transports (SpecModes).                            *)
(***************************************************************************)

\* the result of a tools/call as a function of the tool, the context of the
\* session and what the rate limiter had left for the call
ResultFor(tool, ctx, globalOk, sessionOk) ==
    IF ~globalOk THEN ErrGlobal
    ELSE IF ~sessionOk THEN ErrSession
    ELSE IF tool = "tfe" /\ (ctx.token = "" \/ ctx.address = MalformedAddress)
    THEN ErrCredential
    ELSE ResultOk

\* C25: over standard streams and over HTTP alike, the result of a tools/call
\* is determined by its input, the context (address, token) of its session and
\* the state of the rate limiter it meets, so two sessions that agree on these
\* get the same result on either transport.
C25_TwoModeEquivalence ==
    \A c \in Calls :
       Finished(c) =>
          calls[c].result =
             ResultFor(calls[c].tool, sessCtx[calls[c].sid], calls[c].gtok, calls[c].stok)
C25_Witness ==
    /\ http.pc = "stdio"
    /\ config = TestConfig
    /\ Finished("c1") /\ calls["c1"].tool = "tfe" /\ calls["c1"].result = ResultOk
    /\ Finished("c2") /\ calls["c2"].result = ErrGlobal

(***************************************************************************)
(* Claims about the origin decision table (SpecHTTP).                      *)
(***************************************************************************)

\* origins and configurations the table is evaluated on, beyond those of the
\* requests: every local host with both schemes, hosts that only begin like
\* one, a local host without port
TableOrigins ==
    (Origins \ {NoOrigin})
    \cup { << scheme, host, ":", "3000" >> :
              scheme \in {"http://", "https://"}, host \in {"localhost", "127.0.0.1", "[::1]"} }
    \cup { << "http://", "localhost" >>, << "https://", "127.0.0.1", ".evil.example", ":", "80" >>,
           << "ftp://", "localhost", ":", "21" >>, << "https://", "evil.example" >> }
TableConfigs ==
    CORSConfigs
    \cup [Mode : {"strict", "development", "disabled"},
          AllowedOrigins : { << >>, << AppOrigin, LocalOrigin >> }]

\* the decision table, piece by piece
OriginTable(origin, allowed, mode) ==
    \/ mode = "disabled"
    \/ \E i \in DOMAIN allowed : allowed[i] = origin
    \/ /\ mode = "development"
       /\ Len(origin) >= 3
       /\ origin[1] \in {"http://", "https://"}
       /\ origin[2] \in {"localhost", "127.0.0.1", "[::1]"}
       /\ origin[3] = ":"

\* C26: isOriginAllowed(origin, allowed, mode) is true iff mode is "disabled",
\* or origin is an entry of the allowed list, or mode is "development" and origin
\* starts with http(s)://localhost:, http(s)://127.0.0.1: or http(s)://[::1]:;
\* the security handler refuses a request exactly when the table says no.
C26_OriginDecisionTable ==
    /\ \A origin \in TableOrigins, cors \in TableConfigs :
          isOriginAllowed(origin, cors.AllowedOrigins, cors.Mode)
             <=> OriginTable(origin, cors.AllowedOrigins, cors.Mode)
    /\ (http.pc = "done" /\ http.status = 403) =>
          /\ http.req.origin # NoOrigin
          /\ ~OriginTable(http.req.origin, http.cors.AllowedOrigins, http.cors.Mode)
    /\ (http.pc = "mcp" /\ http.req.origin # NoOrigin) =>
          OriginTable(http.req.origin, http.cors.AllowedOrigins, http.cors.Mode)
C26_Witness ==
    /\ http.pc = "done"
    /\ http.status = 403
    /\ http.req.origin = LocalOrigin
    /\ http.cors = [Mode |-> "strict", AllowedOrigins |-> << AppOrigin >>]

(***************************************************************************)
(* Claims about the registry's set of credentialed sessions (Spec).        *)
(***************************************************************************)

\* the step is a call of RegisterSessionWithTFE(s): from the session hook, or
\* from the wrapper of a credentialed tool
RegisterStep(s) ==
    \/ sess[s] = "none" /\ sess'[s] = "live" /\ activeTfeClients'[s] # NoClient
    \/ \E c \in Calls :
          calls[c].pc = "gate_reg" /\ calls[c].sid = s /\ calls'[c].pc # "gate_reg"

\* the step is the call of UnregisterSessionWithTFE(s) by EndSessionHandler
UnregisterStep(s) == sess[s] = "live" /\ sess'[s] = "end_tfe"

\* C27: a call of RegisterSessionWithTFE(S) makes HasSessionWithTFE(S) true, a
\* call of UnregisterSessionWithTFE(S) makes it false, and nothing else changes
\* it, so it tells which of the two was called last on S and a call on one
\* session leaves every other session's membership alone; HasAnySessionWithTFE
\* is true iff some session is registered.
C27_CredentialedSessionSet ==
    /\ [][ \A s \in Sessions :
              /\ RegisterStep(s) => s \in sessionsWithTFE'
              /\ UnregisterStep(s) => s \notin sessionsWithTFE'
              /\ (~RegisterStep(s) /\ ~UnregisterStep(s)) =>
                    (s \in sessionsWithTFE' <=> s \in sessionsWithTFE) ]_vars
    /\ [](HasAnySessionWithTFE <=> \E s \in Sessions : HasSessionWithTFE(s))
    /\ [](\A s \in Sessions : sess[s] = "none" => ~HasSessionWithTFE(s))
C27_Witness ==
    /\ HasSessionWithTFE("s1") /\ sess["s1"] = "live"
    /\ ~HasSessionWithTFE("s2") /\ sess["s2"] = "ended" /\ tfeCreated["s2"] > 0
    /\ HasAnySessionWithTFE

(***************************************************************************)
(* SpecRegistry: the registry under its lock.  Goroutines run the          *)
(* registry's operations concurrently, each statement that takes or        *)
(* releases r.mu a step of its own: the session hook (which builds the     *)
(* session's clients and then registers it), RegisterSessionWithTFE,       *)
(* UnregisterSessionWithTFE, HasSessionWithTFE, HasAnySessionWithTFE and    *)
(* the wrapper of a credentialed tool (HasSessionWithTFE, then             *)
(* client.GetTfeClient, then RegisterSessionWithTFE).  The Go scheduler    *)
(* runs every goroutine that can run, and a released lock wakes a waiting  *)
(* goroutine: a goroutine's next step is taken if it stays possible.       *)
(***************************************************************************)
RegistryOperations ==
    {"RegisterSessionWithTFE", "UnregisterSessionWithTFE",
     "HasSessionWithTFE", "HasAnySessionWithTFE", "wrappedHandler"}

\* the operations that go straight to r.mu.Lock()
RegistryWriters == {"RegisterSessionWithTFE", "UnregisterSessionWithTFE"}

\* the position at which the operation starts
RegistryEntry(op) == IF op \in RegistryWriters THEN "mu_lock" ELSE "mu_rlock"

\* what a read-locked method returns
RegistryRead(op, sessionID) ==
    IF op = "HasAnySessionWithTFE" THEN HasAnySessionWithTFE ELSE HasSessionWithTFE(sessionID)

\* a goroutine starts one of the registry's operations
RegistryCall(c) ==
    /\ CanServe(c)
    /\ dispatched < MaxCalls
    /\ \E op \in RegistryOperations, sid \in Sessions :
          /\ op = "wrappedHandler" => sess[sid] = "live"
          /\ op = "HasAnySessionWithTFE" => sid = "s1"
          /\ calls' = [calls EXCEPT ![c] =
                [IdleCall EXCEPT !.sid = sid, !.tool = op, !.pc = RegistryEntry(op)]]
    /\ dispatched' = dispatched + 1
    /\ UNCHANGED << config, now, rateVars, clientVars, registryVars, sessVars,
                    handled, admitted, http >>

\* a goroutine runs the session hook of a new session: NewSessionHandler up to
\* its call of the registry builds the session's clients
NewSessionHandlerClients(c) ==
    /\ CanServe(c)
    /\ dispatched < MaxCalls
    /\ \E s \in Sessions, ctx \in SessionContexts :
          /\ CanRegister(s)
          /\ sessCtx' = [sessCtx EXCEPT ![s] = ctx]
          /\ NewTfeClient(s, ctx)
          /\ NewHttpClient(s)
          /\ sess' = [sess EXCEPT ![s] = "live"]
          /\ calls' = [calls EXCEPT ![c] =
                IF CreatedTfeClient(s, ctx) # NoClient
                THEN [IdleCall EXCEPT !.sid = s, !.tool = "NewSessionHandler",
                                      !.pc = "mu_lock"]
                ELSE Return([IdleCall EXCEPT !.sid = s, !.tool = "NewSessionHandler"],
                            ResultOk)]
    /\ dispatched' = dispatched + 1
    /\ UNCHANGED << config, now, rateVars, registryVars, handled, admitted, http >>

\* r.mu.Lock(), first half: take the writer slot, which keeps new readers out
muLock(c) ==
    /\ calls[c].pc = "mu_lock"
    /\ mu.w = NoGoroutine
    /\ mu' = [mu EXCEPT !.w = c]
    /\ calls' = [calls EXCEPT ![c] = [@ EXCEPT !.pc = "mu_wait"]]
    /\ UNCHANGED << config, now, rateVars, clientVars, sessionsWithTFE, tfeToolsRegistered,
                    toolSetsAdded, sessVars, dispatched, handled, admitted, http >>

\* r.mu.Lock(), second half: wait until the readers inside have left
muLockReadersGone(c) ==
    /\ calls[c].pc = "mu_wait"
    /\ mu.r = {}
    /\ calls' = [calls EXCEPT ![c] = [@ EXCEPT !.pc = "mu_write"]]
    /\ UNCHANGED << config, now, rateVars, clientVars, registryVars, sessVars,
                    dispatched, handled, admitted, http >>

\* the body of RegisterSessionWithTFE / UnregisterSessionWithTFE, lock held
RegistryWrite(c) ==
    /\ calls[c].pc = "mu_write"
    /\ mu.w = c
    /\ IF calls[c].tool = "UnregisterSessionWithTFE"
       THEN UnregisterSessionWithTFE(calls[c].sid)
       ELSE RegisterSessionWithTFE(calls[c].sid)
    /\ calls' = [calls EXCEPT ![c] = [@ EXCEPT !.pc = "mu_unlock"]]
    /\ UNCHANGED << config, now, rateVars, clientVars, sessVars, dispatched, handled, admitted, http >>

\* defer r.mu.Unlock(): the method returns; the wrapper goes on to the handler
muUnlock(c) ==
    /\ calls[c].pc = "mu_unlock"
    /\ mu' = [mu EXCEPT !.w = NoGoroutine]
    /\ calls' = [calls EXCEPT ![c] =
          Return([@ EXCEPT !.invoked = (@ \/ calls[c].tool = "wrappedHandler")], ResultOk)]
    /\ UNCHANGED << config, now, rateVars, clientVars, sessionsWithTFE, tfeToolsRegistered,
                    toolSetsAdded, sessVars, dispatched, handled, admitted, http >>

\* r.mu.RLock(): waits while a goroutine is in Lock
muRLock(c) ==
    /\ calls[c].pc = "mu_rlock"
    /\ mu.w = NoGoroutine
    /\ mu' = [mu EXCEPT !.r = @ \cup {c}]
    /\ calls' = [calls EXCEPT ![c] = [@ EXCEPT !.pc = "mu_read"]]
    /\ UNCHANGED << config, now, rateVars, clientVars, sessionsWithTFE, tfeToolsRegistered,
                    toolSetsAdded, sessVars, dispatched, handled, admitted, http >>

\* the call after the read-locked method returned `has`
AfterRegistryRead(call, has) ==
    IF call.tool = "wrappedHandler"
    THEN IF has
         THEN Return([call EXCEPT !.gate = TRUE, !.invoked = TRUE], ResultOk)
         ELSE [call EXCEPT !.gate = TRUE, !.pc = "mu_get"]
    ELSE Return(call, IF has THEN "true" ELSE "false")

\* a read-locked method whose read lock is still held after it returned
muRUnlockKept(c) ==
    /\ calls[c].pc = "mu_read"
    /\ c \in mu.r
    /\ calls' = [calls EXCEPT ![c] =
          AfterRegistryRead(@, RegistryRead(calls[c].tool, calls[c].sid))]
    /\ UNCHANGED << config, now, rateVars, clientVars, registryVars, sessVars,
                    dispatched, handled, admitted, http >>
\* the read under the read lock, then defer r.mu.RUnlock(): the method returns
muRUnlock(c) ==
    /\ calls[c].pc = "mu_read"
    /\ c \in mu.r
    /\ mu' = [mu EXCEPT !.r = @ \ {c}]
    /\ calls' = [calls EXCEPT ![c] =
          AfterRegistryRead(@, RegistryRead(calls[c].tool, calls[c].sid))]
    /\ UNCHANGED << config, now, rateVars, clientVars, sessionsWithTFE, tfeToolsRegistered,
                    toolSetsAdded, sessVars, dispatched, handled, admitted, http >>

\* wrappedHandler: tfeClient := client.GetTfeClient(sessionID); nil -> the diagnostic,
\* else on to r.RegisterSessionWithTFE(sessionID)
RegistryDoubleCheck(c) ==
    /\ calls[c].pc = "mu_get"
    /\ calls' = [calls EXCEPT ![c] =
          IF GetTfeClient(calls[c].sid) = NoClient
          THEN Return(@, ErrCredential)
          ELSE [@ EXCEPT !.pc = "mu_lock"]]
    /\ UNCHANGED << config, now, rateVars, clientVars, registryVars, sessVars,
                    dispatched, handled, admitted, http >>

\* the next statement of goroutine c's operation
RegistryStep(c) ==
    \/ muLock(c)
    \/ muLockReadersGone(c)
    \/ RegistryWrite(c)
    \/ muUnlock(c)
    \/ muRLock(c)
    \/ muRUnlock(c)
    \/ RegistryDoubleCheck(c)

InitRegistry == ServerStarted(TestConfig)

NextRegistry ==
    \/ \E c \in Calls : RegistryCall(c)
    \/ \E c \in Calls : NewSessionHandlerClients(c)
    \/ \E c \in Calls : muLock(c)
    \/ \E c \in Calls : muLockReadersGone(c)
    \/ \E c \in Calls : RegistryWrite(c)
    \/ \E c \in Calls : muUnlock(c)
    \/ \E c \in Calls : muRLock(c)
    \/ \E c \in Calls : muRUnlock(c)
    \/ \E c \in Calls : RegistryDoubleCheck(c)

SpecRegistry == InitRegistry /\ [][NextRegistry]_vars

\* the same under the scheduler's fairness
SpecRegistryFair == SpecRegistry /\ \A c \in Calls : WF_vars(RegistryStep(c))

\* a goroutine is inside one of the registry's operations
InRegistry(c) == calls[c].pc \notin {"idle", "done"}

\* C28: the registry's operations are deadlock-free: however the concurrent
\* RegisterSessionWithTFE, UnregisterSessionWithTFE, HasSessionWithTFE,
\* HasAnySessionWithTFE and credentialed-wrapper invocations (a read under the
\* read lock, then possibly a registration under the write lock) interleave,
\* every operation a goroutine has started eventually completes
C28_RegistryDeadlockFree ==
    \A c \in Calls : InRegistry(c) ~> Finished(c)

\* both goroutines have completed an operation, one of them a wrapper that read
\* under the read lock and then registered its session under the write lock
C28_Witness ==
    /\ \A c \in Calls : Finished(c)
    /\ \E c \in Calls :
          /\ calls[c].tool = "wrappedHandler"
          /\ calls[c].gate /\ calls[c].invoked
          /\ calls[c].sid \in sessionsWithTFE
          /\ toolSetsAdded = 1
    /\ mu = MuFree

(***************************************************************************)
(* SpecUpstream: a registry tool's handler, its session's HTTP client in   *)
(* hand, sends one call to the public registry with SendRegistryCall.  The *)
(* client is the one createHTTPClient builds: a retryablehttp client with  *)
(* RetryMax = 3 whose CheckRetry asks for another attempt when the         *)
(* response is a 429 that carries an x-ratelimit-reset header.  The        *)
(* registry answers every attempt as it likes.                             *)
(***************************************************************************)
RetryMax == 3

\* what the registry may answer to one attempt; status 0: no response (transport error)
UpstreamResponses ==
    { [status |-> 200, reset |-> "", body |-> "payload"],
      [status |-> 404, reset |-> "", body |-> "not found"],
      [status |-> 500, reset |-> "", body |-> "internal error"],
      [status |-> 429, reset |-> "", body |-> "slow down"],
      [status |-> 429, reset |-> "1700000000", body |-> "slow down"],
      [status |-> 0, reset |-> "", body |-> ""] }

NoBody == ""
NoError == ""
ErrTransport == "connection refused"
ErrGivingUp == "giving up after 4 attempt(s)"
ErrNotFound == "error: 404 Not Found"

\* a CheckRetry that asks for another attempt after every 429
CheckRetryEvery429(resp) == resp.status = 429
\* retryClient.CheckRetry: resp != nil && 429 -> the reset header is present; else false
CheckRetry(resp) ==
    IF resp.status # 0 /\ resp.status = 429 THEN resp.reset # "" ELSE FALSE

\* a SendRegistryCall that reads the body of whatever response it gets
SendRegistryCallAnyStatus(resp, err) ==
    IF err # NoError THEN [body |-> NoBody, err |-> err]
    ELSE [body |-> resp.body, err |-> NoError]
\* SendRegistryCall after client.Do returned: (nil, err) on a transport error,
\* (nil, "error: 404 Not Found") on a status other than 200, else (body, nil)
SendRegistryCall(resp, err) ==
    IF err # NoError THEN [body |-> NoBody, err |-> err]
    ELSE IF resp.status # 200 THEN [body |-> NoBody, err |-> ErrNotFound]
    ELSE [body |-> resp.body, err |-> NoError]

\* what the tool's handler hands back: the error when there is one, else the body
Surface(out) == IF out.err # NoError THEN out.err ELSE out.body

\* a registry tool's handler reaches its SendRegistryCall
RegistryToolHandler(c) ==
    /\ CanServe(c)
    /\ dispatched < MaxCalls
    /\ \E sid \in LiveSessions :
          /\ GetHttpClient(sid) # NoClient
          /\ calls' = [calls EXCEPT ![c] =
                [IdleCall EXCEPT !.sid = sid, !.tool = "registry", !.invoked = TRUE,
                                 !.client = GetHttpClient(sid), !.pc = "rc_do"]]
    /\ dispatched' = dispatched + 1
    /\ UNCHANGED << config, now, rateVars, clientVars, registryVars, sessVars,
                    handled, admitted, http >>

\* client.Do(req): one attempt of the retrying client.  It tries again when
\* CheckRetry says so and attempts remain; out of attempts it gives up with an
\* error; else SendRegistryCall goes on with the response (or transport error)
retryClientDo(c) ==
    /\ calls[c].pc = "rc_do"
    /\ \E resp \in UpstreamResponses :
          LET seen == Append(calls[c].upstream, resp)
              remain == RetryMax - (Len(seen) - 1)
          IN calls' = [calls EXCEPT ![c] =
                IF ~CheckRetry(resp)
                THEN Return([@ EXCEPT !.upstream = seen],
                            Surface(SendRegistryCall(resp,
                                IF resp.status = 0 THEN ErrTransport ELSE NoError)))
                ELSE IF remain <= 0
                THEN Return([@ EXCEPT !.upstream = seen],
                            Surface(SendRegistryCall(resp, ErrGivingUp)))
                ELSE [@ EXCEPT !.upstream = seen]]
    /\ UNCHANGED << config, now, rateVars, clientVars, registryVars, sessVars,
                    dispatched, handled, admitted, http >>

InitUpstream == ServerStarted(RoomyConfig)

NextUpstream ==
    \/ \E s \in Sessions, ctx \in SessionContexts : OnRegisterSession(s, ctx)
    \/ \E c \in Calls : RegistryToolHandler(c)
    \/ \E c \in Calls : retryClientDo(c)

SpecUpstream == InitUpstream /\ [][NextUpstream]_vars

ProcessEnvironments ==
    [TRANSPORT_MODE : {"", "http", "streamable-http", "stdio", "HTTP"},
     TRANSPORT_PORT : {"", "9090"},
     TRANSPORT_HOST : {"", "0.0.0.0"},
     MCP_ENDPOINT   : {"", "/api/mcp"}]

\* the subcommand on the command line, "" for none; flags are left at their defaults
CommandLines == {"", "stdio", "streamable-http", "http", "--help"}

\* a check of TRANSPORT_MODE alone
shouldUseStreamableHTTPModeByModeOnly(environ) ==
    environ.TRANSPORT_MODE = "http" \/ environ.TRANSPORT_MODE = "streamable-http"
shouldUseStreamableHTTPMode(environ) ==
    \/ environ.TRANSPORT_MODE = "http" \/ environ.TRANSPORT_MODE = "streamable-http"
    \/ environ.TRANSPORT_PORT # ""
    \/ environ.TRANSPORT_HOST # ""
    \/ environ.MCP_ENDPOINT # ""

getHTTPPort(environ) ==
    IF environ.TRANSPORT_PORT # "" THEN environ.TRANSPORT_PORT ELSE "8080"

getHTTPHost(environ) ==
    IF environ.TRANSPORT_HOST # "" THEN environ.TRANSPORT_HOST ELSE "127.0.0.1"

\* getEndpointPath(nil): the environment, else "/mcp"
getEndpointPath(environ) ==
    IF environ.MCP_ENDPOINT # "" THEN environ.MCP_ENDPOINT ELSE "/mcp"

\* where no HTTP server listens
NoBind == [host |-> "", port |-> "", endpoint |-> ""]

\* the process before main has run
ProcessStart(environ, args) ==
    [pc |-> "main", environ |-> environ, args |-> args, bind |-> NoBind]

\* runHTTPServer(logger, host, port, endpointPath)
runHTTPServer(h, host, port, endpointPath) ==
    [environ |-> h.environ, args |-> h.args,
     bind |-> [host |-> host, port |-> port, endpoint |-> endpointPath]]
    @@ HttpIdle

\* runStdioServer(logger)
runStdioServer(h) ==
    [environ |-> h.environ, args |-> h.args, bind |-> NoBind]
    @@ StdioStart(HttpIdle.env)

\* rootCmd.Execute(): the Run of the subcommand, or of the root command
rootCmdExecute(h) ==
    IF h.args \in {"streamable-http", "http"}
    THEN runHTTPServer(h, "127.0.0.1", "8080", "/mcp")
    ELSE IF h.args \in {"", "stdio"}
    THEN runStdioServer(h)
    ELSE [h EXCEPT !.pc = "exit"]

main ==
    /\ http.pc = "main"
    /\ http' = IF shouldUseStreamableHTTPMode(http.environ)
               THEN runHTTPServer(http, getHTTPHost(http.environ), getHTTPPort(http.environ),
                                  getEndpointPath(http.environ))
               ELSE rootCmdExecute(http)
    /\ UNCHANGED << config, now, rateVars, clientVars, registryVars, sessVars,
                    calls, dispatched, handled, admitted >>

InitMain ==
    /\ NewServer(TestConfig)
    /\ \E environ \in ProcessEnvironments, args \in CommandLines :
          http = ProcessStart(environ, args)

NextMain == main

SpecMain == InitMain /\ [][NextMain]_vars

\* the transport the started process runs
RunsHTTP == http.pc = "idle"
RunsStdio == http.pc = "stdio"

\* C30: the process runs the HTTP transport whenever TRANSPORT_MODE is "http"
\* or "streamable-http" or any of TRANSPORT_PORT, TRANSPORT_HOST, MCP_ENDPOINT
\* is non-empty, whatever TRANSPORT_MODE and the subcommand are; otherwise the
\* command line decides: HTTP for streamable-http (or its alias http),
\* standard streams for stdio and for no subcommand
C30_TransportSelection ==
    http.pc # "main" =>
       IF \/ http.environ.TRANSPORT_MODE \in {"http", "streamable-http"}
          \/ http.environ.TRANSPORT_PORT # ""
          \/ http.environ.TRANSPORT_HOST # ""
          \/ http.environ.MCP_ENDPOINT # ""
       THEN RunsHTTP
       ELSE /\ http.args \in {"streamable-http", "http"} => RunsHTTP
            /\ http.args \in {"", "stdio"} => RunsStdio

\* started with the stdio subcommand and TRANSPORT_MODE=stdio, the process
\* serves HTTP on the port that TRANSPORT_PORT names
C30_Witness ==
    /\ RunsHTTP
    /\ http.args = "stdio"
    /\ http.environ.TRANSPORT_MODE = "stdio"
    /\ http.environ.TRANSPORT_PORT = "9090"
    /\ http.bind.port = "9090"

(***************************************************************************)
(* SpecSessionMode: streamableHTTPServerInit reads MCP_SESSION_MODE once,  *)
(* when it builds the HTTP server.  A value of the variable is a sequence  *)
(* of characters; unset and empty both read as the empty sequence.         *)
(***************************************************************************)
UpperCase ==
    << "A", "B", "C", "D", "E", "F", "G", "H", "I", "J", "K", "L", "M",
       "N", "O", "P", "Q", "R", "S", "T", "U", "V", "W", "X", "Y", "Z" >>
LowerCase ==
    << "a", "b", "c", "d", "e", "f", "g", "h", "i", "j", "k", "l", "m",
       "n", "o", "p", "q", "r", "s", "t", "u", "v", "w", "x", "y", "z" >>

\* unicode.ToLower on one character
ToLowerChar(ch) ==
    IF \E i \in DOMAIN UpperCase : UpperCase[i] = ch
    THEN LowerCase[CHOOSE i \in DOMAIN UpperCase : UpperCase[i] = ch]
    ELSE ch

\* a lowering that leaves every character as it is
ToLowerUnchanged(str) == str
\* strings.ToLower
ToLower(str) == [i \in DOMAIN str |-> ToLowerChar(str[i])]

Stateless == << "s", "t", "a", "t", "e", "l", "e", "s", "s" >>
StatelessUpper == << "S", "T", "A", "T", "E", "L", "E", "S", "S" >>

\* the values of MCP_SESSION_MODE tried: "stateless" in every mix of cases,
\* unset or empty, "stateful", and strings that are not a mode
SessionModeValues ==
    { [i \in DOMAIN Stateless |-> IF upper[i] THEN StatelessUpper[i] ELSE Stateless[i]] :
         upper \in [DOMAIN Stateless -> BOOLEAN] }
    \cup { << >>,
           << "s", "t", "a", "t", "e", "f", "u", "l" >>,
           << "S", "T", "A", "T", "E", "F", "U", "L" >>,
           << "i", "n", "v", "a", "l", "i", "d", "-", "v", "a", "l", "u", "e" >>,
           << "s", "t", "a", "t", "e", "l", "e", "s" >>,
           << "s", "t", "a", "t", "e", "l", "e", "s", "s", " " >>,
           << " ", "s", "t", "a", "t", "e", "l", "e", "s", "s" >>,
           << "s", "t", "a", "t", "e", "-", "l", "e", "s", "s" >>,
           << "t", "r", "u", "e" >>,
           << "1" >> }

\* shouldUseStatelessMode: strings.ToLower(os.Getenv("MCP_SESSION_MODE")) == "stateless"
shouldUseStatelessMode(environ) == ToLower(environ.MCP_SESSION_MODE) = Stateless

\* streamableHTTPServerInit: server.WithStateLess(shouldUseStatelessMode())
streamableHTTPServerInit ==
    /\ http.pc = "init"
    /\ http' = [environ |-> http.environ, stateless |-> shouldUseStatelessMode(http.environ)]
               @@ HttpIdle
    /\ UNCHANGED << config, now, rateVars, clientVars, registryVars, sessVars,
                    calls, dispatched, handled, admitted >>

InitSessionMode ==
    /\ NewServer(TestConfig)
    /\ \E v \in SessionModeValues :
          http = [pc |-> "init", environ |-> [MCP_SESSION_MODE |-> v]]

NextSessionMode == streamableHTTPServerInit

SpecSessionMode == InitSessionMode /\ [][NextSessionMode]_vars

\* the value is the word "stateless", letter by letter, in either case
IsStatelessWord(v) ==
    /\ Len(v) = 9
    /\ v[1] \in {"s", "S"} /\ v[2] \in {"t", "T"} /\ v[3] \in {"a", "A"}
    /\ v[4] \in {"t", "T"} /\ v[5] \in {"e", "E"} /\ v[6] \in {"l", "L"}
    /\ v[7] \in {"e", "E"} /\ v[8] \in {"s", "S"} /\ v[9] \in {"s", "S"}

\* C31: the server runs in stateless mode iff MCP_SESSION_MODE equals
\* "stateless" without regard to case; unset, empty, "stateful" and every
\* other string give stateful mode
C31_SessionMode ==
    http.pc # "init" =>
       (http.stateless <=> IsStatelessWord(http.environ.MCP_SESSION_MODE))

\* the server was built stateless from the mixed-case value StAtElEsS
C31_Witness ==
    /\ http.pc = "idle"
    /\ http.stateless
    /\ http.environ.MCP_SESSION_MODE = << "S", "t", "A", "t", "E", "l", "E", "s", "S" >>

(***************************************************************************)
(* SpecRateConfig: NewServer loads the rate-limit configuration from       *)
(* MCP_RATE_LIMIT_GLOBAL and MCP_RATE_LIMIT_SESSION.  A value is a         *)
(* sequence of characters (unset and empty: the empty sequence).  A rate   *)
(* is kept in hundredths of a request per second, so that the fractional   *)
(* rates of the inputs tried here stay exact.                              *)
(***************************************************************************)
DecimalDigits == << "0", "1", "2", "3", "4", "5", "6", "7", "8", "9" >>

IsDigit(ch) == \E i \in DOMAIN DecimalDigits : DecimalDigits[i] = ch
DigitValue(ch) == (CHOOSE i \in DOMAIN DecimalDigits : DecimalDigits[i] = ch) - 1

\* the number a sequence of digits denotes
RECURSIVE DigitsValue(_)
DigitsValue(ds) ==
    IF ds = << >> THEN 0
    ELSE DigitsValue(SubSeq(ds, 1, Len(ds) - 1)) * 10 + DigitValue(ds[Len(ds)])

\* strings.Split(str, sep)
RECURSIVE Split(_, _)
Split(str, sep) ==
    IF \A i \in DOMAIN str : str[i] # sep
    THEN << str >>
    ELSE LET i == CHOOSE k \in DOMAIN str :
                     str[k] = sep /\ \A j \in 1..(k - 1) : str[j] # sep
         IN << SubSeq(str, 1, i - 1) >> \o Split(SubSeq(str, i + 1, Len(str)), sep)

\* strings.TrimSpace
TrimSpace(str) ==
    LET solid == { i \in DOMAIN str : str[i] # " " }
    IN IF solid = {} THEN << >>
       ELSE SubSeq(str, CHOOSE i \in solid : \A j \in solid : i <= j,
                        CHOOSE i \in solid : \A j \in solid : j <= i)

\* the text after an optional sign
Unsigned(str) ==
    IF str # << >> /\ str[1] \in {"+", "-"} THEN SubSeq(str, 2, Len(str)) ELSE str
Negative(str) == str # << >> /\ str[1] = "-"

\* strconv.Atoi: an optional sign and one or more decimal digits
Atoi(str) ==
    LET ds == Unsigned(str)
    IN IF ds = << >> \/ \E i \in DOMAIN ds : ~IsDigit(ds[i])
       THEN [value |-> 0, err |-> TRUE]
       ELSE [value |-> IF Negative(str) THEN 0 - DigitsValue(ds) ELSE DigitsValue(ds),
             err |-> FALSE]

\* strconv.ParseFloat on decimal notation: an optional sign, digits with at
\* most one point among them and at least one digit; the value in hundredths
\* (at most two digits follow the point in the inputs tried)
ParseFloat(str) ==
    LET body == Unsigned(str)
        points == { i \in DOMAIN body : body[i] = "." }
        point == IF points = {} THEN Len(body) + 1 ELSE CHOOSE i \in points : TRUE
        whole == SubSeq(body, 1, point - 1)
        frac == SubSeq(body, point + 1, Len(body))
        hundredths ==
            DigitsValue(whole) * 100
            + (IF Len(frac) >= 1 THEN DigitValue(frac[1]) * 10 ELSE 0)
            + (IF Len(frac) >= 2 THEN DigitValue(frac[2]) ELSE 0)
    IN IF \/ Cardinality(points) > 1
          \/ \E i \in DOMAIN body : ~IsDigit(body[i]) /\ body[i] # "."
          \/ Len(whole) + Len(frac) = 0
       THEN [value |-> 0, err |-> TRUE]
       ELSE [value |-> IF Negative(str) THEN 0 - hundredths ELSE hundredths, err |-> FALSE]

\* a parse that reads the first two of any number of parts
parseRateLimitFirstTwo(limit) ==
    LET parts == Split(limit, ":")
    IN IF Len(parts) < 2 THEN [rps |-> 0, burst |-> 0]
       ELSE LET rps == ParseFloat(TrimSpace(parts[1]))
                burst == Atoi(TrimSpace(parts[2]))
            IN IF rps.err \/ burst.err THEN [rps |-> 0, burst |-> 0]
               ELSE [rps |-> rps.value, burst |-> burst.value]
\* parseRateLimit: "rps:burst", (0, 0) when it is not that
parseRateLimit(limit) ==
    LET parts == Split(limit, ":")
    IN IF Len(parts) # 2 THEN [rps |-> 0, burst |-> 0]
       ELSE LET rps == ParseFloat(TrimSpace(parts[1]))
                burst == Atoi(TrimSpace(parts[2]))
            IN IF rps.err \/ burst.err THEN [rps |-> 0, burst |-> 0]
               ELSE [rps |-> rps.value, burst |-> burst.value]

\* DefaultRateLimitConfig: 10 rps with burst 20 globally, 5 rps with burst 10 per session
DefaultRateLimitConfig ==
    [GlobalLimit |-> 1000, GlobalBurst |-> 20, PerSessionLimit |-> 500, PerSessionBurst |-> 10]

\* LoadRateLimitConfigFromEnv
LoadRateLimitConfigFromEnv(environ) ==
    LET global == parseRateLimit(environ.MCP_RATE_LIMIT_GLOBAL)
        session == parseRateLimit(environ.MCP_RATE_LIMIT_SESSION)
        withGlobal ==
            IF /\ environ.MCP_RATE_LIMIT_GLOBAL # << >>
               /\ global.rps > 0 /\ global.burst > 0
            THEN [DefaultRateLimitConfig EXCEPT !.GlobalLimit = global.rps,
                                                !.GlobalBurst = global.burst]
            ELSE DefaultRateLimitConfig
    IN IF /\ environ.MCP_RATE_LIMIT_SESSION # << >>
          /\ session.rps > 0 /\ session.burst > 0
       THEN [withGlobal EXCEPT !.PerSessionLimit = session.rps,
                               !.PerSessionBurst = session.burst]
       ELSE withGlobal

\* the characters the values tried are made of, and their greatest length
RateLimitAlphabet == {"0", "1", "5", ":", " ", ".", "-", "x"}
MaxRateLimitLen == 4

\* every value of up to MaxRateLimitLen characters
RateLimitValues ==
    UNION { [1..n -> RateLimitAlphabet] : n \in 0..MaxRateLimitLen }

\* the values of the other level: unset, valid ones, invalid ones
OtherLevelValues ==
    { << >>,
      << "5", ":", "1" >>,
      << ".", "5", ":", "5" >>,
      << "0", ":", "5" >>,
      << "x" >>,
      << "1", ":", "1", ":", "1" >> }

RateLimitEnvironments ==
    [MCP_RATE_LIMIT_GLOBAL : RateLimitValues, MCP_RATE_LIMIT_SESSION : OtherLevelValues]
    \cup [MCP_RATE_LIMIT_GLOBAL : OtherLevelValues, MCP_RATE_LIMIT_SESSION : RateLimitValues]

\* NewServer: LoadRateLimitConfigFromEnv, then NewRateLimitMiddleware(config)
NewServerLoadConfig ==
    /\ http.pc = "load"
    /\ config' = LoadRateLimitConfigFromEnv(http.environ)
    /\ globalTokens' = NewLimiter(LoadRateLimitConfigFromEnv(http.environ).GlobalBurst)
    /\ http' = [environ |-> http.environ] @@ HttpIdle
    /\ UNCHANGED << now, sessionLimiters, limiterTokens, limiterOwner, clientVars,
                    registryVars, sessVars, calls, dispatched, handled, admitted >>

InitRateConfig ==
    /\ NewServer(DefaultRateLimitConfig)
    /\ \E environ \in RateLimitEnvironments : http = [pc |-> "load", environ |-> environ]

NextRateConfig == NewServerLoadConfig

SpecRateConfig == InitRateConfig /\ [][NextRateConfig]_vars

\* the value has exactly two colon-separated parts, a float above zero and an
\* integer above zero
WellFormedRateLimit(value) ==
    /\ Cardinality({ i \in DOMAIN value : value[i] = ":" }) = 1
    /\ LET colon == CHOOSE i \in DOMAIN value : value[i] = ":"
           rps == ParseFloat(TrimSpace(SubSeq(value, 1, colon - 1)))
           burst == Atoi(TrimSpace(SubSeq(value, colon + 1, Len(value))))
       IN ~rps.err /\ rps.value > 0 /\ ~burst.err /\ burst.value > 0

RateOf(value) ==
    LET colon == CHOOSE i \in DOMAIN value : value[i] = ":"
    IN << ParseFloat(TrimSpace(SubSeq(value, 1, colon - 1))).value,
          Atoi(TrimSpace(SubSeq(value, colon + 1, Len(value)))).value >>

\* C32: each of MCP_RATE_LIMIT_GLOBAL and MCP_RATE_LIMIT_SESSION is applied
\* only if it is "rps:burst" with exactly two parts, rps a float above zero and
\* burst an integer above zero; otherwise its level keeps the default (10:20
\* global, 5:10 per session); each level is decided by its own variable alone
C32_RateLimitConfig ==
    http.pc # "load" =>
       /\ << config.GlobalLimit, config.GlobalBurst >> =
             IF WellFormedRateLimit(http.environ.MCP_RATE_LIMIT_GLOBAL)
             THEN RateOf(http.environ.MCP_RATE_LIMIT_GLOBAL)
             ELSE << 1000, 20 >>
       /\ << config.PerSessionLimit, config.PerSessionBurst >> =
             IF WellFormedRateLimit(http.environ.MCP_RATE_LIMIT_SESSION)
             THEN RateOf(http.environ.MCP_RATE_LIMIT_SESSION)
             ELSE << 500, 10 >>

\* global " .5:1" (half a request per second, burst 1) is applied although the
\* session value 1:1:1 is invalid and leaves the session level at its default
C32_Witness ==
    /\ http.pc = "idle"
    /\ http.environ.MCP_RATE_LIMIT_GLOBAL = << ".", "5", ":", "1" >>
    /\ http.environ.MCP_RATE_LIMIT_SESSION = << "1", ":", "1", ":", "1" >>
    /\ config = [GlobalLimit |-> 50, GlobalBurst |-> 1,
                 PerSessionLimit |-> 500, PerSessionBurst |-> 10]
    /\ globalTokens = 1

(***************************************************************************)
(* SpecTemplate: the provider resource template.  A read of                *)
(* registry://providers/N/name/X/version/V goes through                    *)
(* providerResourceTemplateHelper, which asks the public registry for the  *)
(* latest version when V is not a usable version, then for the ID of the   *)
(* version, then for the overview documentation of that ID.  URIs and      *)
(* versions are sequences of characters.  The registry's state is what it  *)
(* reports as latest version of the provider, the versions it lists with   *)
(* their IDs, and the documentation it has per ID.                         *)
(***************************************************************************)
PROVIDER_BASE_PATH == << "r", "e", "g", "i", "s", "t", "r", "y", ":", "/", "/", "p", "r", "o", "v", "i", "d", "e", "r", "s" >>
Latest == << "l", "a", "t", "e", "s", "t" >>

\* the text of several parts with sep between them
RECURSIVE Join(_, _)
Join(parts, sep) ==
    IF Len(parts) = 0 THEN << >>
    ELSE IF Len(parts) = 1 THEN parts[1]
    ELSE parts[1] \o sep \o Join(Tail(parts), sep)

\* the URI of the template with its three slots filled
ProviderURI(namespace, name, version) ==
    Join(<< PROVIDER_BASE_PATH, namespace, << "n", "a", "m", "e" >>, name, << "v", "e", "r", "s", "i", "o", "n" >>, version >>, << "/" >>)

\* ExtractProviderNameAndVersion: the 5th, 3rd and 1st part from the end
ExtractProviderNameAndVersion(uri) ==
    LET parts == Split(uri, "/")
    IN IF Len(parts) < 5
       THEN [err |-> TRUE, namespace |-> << >>, name |-> << >>, version |-> << >>]
       ELSE [err |-> FALSE, namespace |-> parts[Len(parts) - 4],
             name |-> parts[Len(parts) - 2], version |-> parts[Len(parts)]]

IsAlnum(ch) ==
    \/ IsDigit(ch)
    \/ \E i \in DOMAIN UpperCase : ch \in {UpperCase[i], LowerCase[i]}

\* a check that takes every text for a version
IsValidProviderVersionFormatAny(version) == TRUE
\* IsValidProviderVersionFormat: ^v?(\d+\.\d+\.\d+(-[a-zA-Z0-9]+)?)$
IsValidProviderVersionFormat(version) ==
    LET rest == IF version # << >> /\ version[1] = "v"
                THEN SubSeq(version, 2, Len(version)) ELSE version
        dashes == { i \in DOMAIN rest : rest[i] = "-" }
        dash == IF dashes = {} THEN Len(rest) + 1
                ELSE CHOOSE i \in dashes : \A j \in dashes : i <= j
        core == Split(SubSeq(rest, 1, dash - 1), ".")
        pre == SubSeq(rest, dash + 1, Len(rest))
    IN /\ Len(core) = 3
       /\ \A k \in 1..3 : core[k] # << >> /\ \A i \in DOMAIN core[k] : IsDigit(core[k][i])
       /\ dashes # {} => (pre # << >> /\ \A i \in DOMAIN pre : IsAlnum(pre[i]))

\* what the helper returns: the content, or an error
NoContent == ""
TemplateError(what) == [content |-> NoContent, err |-> what]
TemplateContent(text) == [content |-> text, err |-> NoError]

\* GetLatestProviderVersion: the version the registry reports, an error if it has none
GetLatestProviderVersion(registry) ==
    IF registry.latest.err THEN [version |-> << >>, err |-> TRUE]
    ELSE [version |-> registry.latest.version, err |-> FALSE]

\* GetProviderVersionID: the ID of the listed version that equals `version`
GetProviderVersionID(registry, version) ==
    IF \E i \in DOMAIN registry.included : registry.included[i].version = version
    THEN [id |-> registry.included[
                    CHOOSE i \in DOMAIN registry.included :
                       /\ registry.included[i].version = version
                       /\ \A j \in 1..(i - 1) : registry.included[j].version # version].id,
          err |-> FALSE]
    ELSE [id |-> "", err |-> TRUE]

\* GetProviderOverviewDocs: the overview documentation of a version ID, or an error
GetProviderOverviewDocs(registry, providerVersionID) == registry.docs[providerVersionID]

\* providerResourceTemplateHelper
providerResourceTemplateHelper(registry, resourceURI) ==
    LET extracted == ExtractProviderNameAndVersion(resourceURI)
        resolve == \/ extracted.version = << >>
                   \/ extracted.version = Latest
                   \/ ~IsValidProviderVersionFormat(extracted.version)
        latest == GetLatestProviderVersion(registry)
        version == IF resolve THEN latest.version ELSE extracted.version
        versionID == GetProviderVersionID(registry, version)
    IN IF extracted.err THEN TemplateError("extracting provider name and version")
       ELSE IF resolve /\ latest.err THEN TemplateError("getting latest provider version")
       ELSE IF versionID.err THEN TemplateError("getting provider details for provider-version-id")
       ELSE IF GetProviderOverviewDocs(registry, versionID.id).err
       THEN TemplateError("getting provider details for docs with provider-version-id")
       ELSE TemplateContent(GetProviderOverviewDocs(registry, versionID.id).text)

\* the version slots tried
VersionSlots ==
    { << >>,
      << "l", "a", "t", "e", "s", "t" >>,
      << "L", "A", "T", "E", "S", "T" >>,
      << "1", ".", "2", ".", "0" >>,
      << "v", "1", ".", "2", ".", "0" >>,
      << "1", ".", "2" >>,
      << "2", ".", "0", ".", "0", "-", "r", "c", "1" >>,
      << "1", ".", "2", ".", "0", "-" >>,
      << "a", "b", "c" >>,
      << "1", ".", "2", ".", "0", ".", "0" >>,
      << "1", ".", "2", ".", "0", "-", "b", ".", "1" >>,
      << "1", ".", "2", ".", "0", " " >> }

\* the versions the registry may list, with their IDs, and the documentation per ID
ListedVersions ==
    << [version |-> << "1", ".", "2", ".", "0" >>, id |-> "101"],
       [version |-> << "2", ".", "0", ".", "0", "-", "r", "c", "1" >>, id |-> "102"],
       [version |-> << "1", ".", "2" >>, id |-> "103"] >>
RegistryDocs ==
    [id \in {"101", "102", "103"} |->
        IF id = "101" THEN [text |-> "overview of 1.2.0", err |-> FALSE]
        ELSE IF id = "102" THEN [text |-> "overview of 2.0.0-rc1", err |-> FALSE]
        ELSE [text |-> NoContent, err |-> TRUE]]

\* the states of the registry: it reports a latest version (a plain version, a
\* pre-release, a two-part version, one it does not list) or fails to, and
\* lists a sub-list of ListedVersions
RegistryStates ==
    [latest : { [version |-> v, err |-> FALSE] :
                   v \in {<< "1", ".", "2", ".", "0" >>, << "2", ".", "0", ".", "0", "-", "r", "c", "1" >>, << "1", ".", "2" >>, << "3", ".", "0", ".", "0" >>} }
              \cup { [version |-> << >>, err |-> TRUE] },
     included : { SelectSeq(ListedVersions, LAMBDA e : e.id \in ids) :
                     ids \in SUBSET {"101", "102", "103"} },
     docs : {RegistryDocs}]

NotRead == [content |-> NoContent, err |-> "not read"]

\* a read of the template with the version slot as the caller gave it
ReadTemplateWithSlot ==
    /\ http.pc = "template"
    /\ http.slot = NotRead
    /\ http' = [http EXCEPT !.slot =
                   providerResourceTemplateHelper(http.registry,
                       ProviderURI(<< "h", "a", "s", "h", "i", "c", "o", "r", "p" >>, << "a", "w", "s" >>, http.version))]
    /\ UNCHANGED << config, now, rateVars, clientVars, registryVars, sessVars,
                    calls, dispatched, handled, admitted >>

\* a read of the template with the version slot set to the version the
\* registry reports as latest
ReadTemplateWithLatest ==
    /\ http.pc = "template"
    /\ http.resolved = NotRead
    /\ ~http.registry.latest.err
    /\ http' = [http EXCEPT !.resolved =
                   providerResourceTemplateHelper(http.registry,
                       ProviderURI(<< "h", "a", "s", "h", "i", "c", "o", "r", "p" >>, << "a", "w", "s" >>, http.registry.latest.version))]
    /\ UNCHANGED << config, now, rateVars, clientVars, registryVars, sessVars,
                    calls, dispatched, handled, admitted >>

InitTemplate ==
    /\ NewServer(TestConfig)
    /\ \E registry \in RegistryStates, version \in VersionSlots :
          http = [pc |-> "template", registry |-> registry, version |-> version,
                  slot |-> NotRead, resolved |-> NotRead]

NextTemplate ==
    \/ ReadTemplateWithSlot
    \/ ReadTemplateWithLatest

SpecTemplate == InitTemplate /\ [][NextTemplate]_vars

\* the version slot is one the reader replaces by the latest version: empty,
\* "latest", or not of the form [v]digits.digits.digits[-alphanumerics]
SlotNeedsLatest(version) ==
    version \in { << >>,
                  << "l", "a", "t", "e", "s", "t" >>,
                  << "L", "A", "T", "E", "S", "T" >>,
                  << "1", ".", "2" >>,
                  << "1", ".", "2", ".", "0", "-" >>,
                  << "a", "b", "c" >>,
                  << "1", ".", "2", ".", "0", ".", "0" >>,
                  << "1", ".", "2", ".", "0", "-", "b", ".", "1" >>,
                  << "1", ".", "2", ".", "0", " " >> }

\* C33: for a provider URI, a read with the version slot empty, "latest" or not
\* matching the semver pattern yields the same content as a read with the slot
\* set to the version the registry reports as latest, the registry's state
\* being the same
C33_TemplateRoundTrip ==
    (/\ http.slot # NotRead /\ http.resolved # NotRead
     /\ SlotNeedsLatest(http.version))
    => http.slot = http.resolved

\* the slot LATEST (not the word latest, not a version) gave the overview of
\* the latest version 1.2.0, as did the read with the slot 1.2.0
C33_Witness ==
    /\ http.version = << "L", "A", "T", "E", "S", "T" >>
    /\ http.registry.latest.version = << "1", ".", "2", ".", "0" >>
    /\ http.slot = TemplateContent("overview of 1.2.0")
    /\ http.resolved = http.slot

\* C34: a credentialed call on session S racing EndSessionHandler(S): once the
\* teardown and every credentialed call on S have completed, S is not in
\* sessionsWithTFE and has no entry in the backend-client map
C34_TeardownRace ==
    \A s \in Sessions :
       (/\ sess[s] = "ended"
        /\ \A c \in Calls : (calls[c].sid = s /\ calls[c].tool = "tfe") => Finished(c))
       => /\ ~HasSessionWithTFE(s)
          /\ GetTfeClient(s) = NoClient

\* the limiters created for session s so far
LimitersOf(s) == { i \in DOMAIN limiterOwner : limiterOwner[i] = s }

\* goroutine c comes out of getSessionLimiter in this step and calls Allow()
GotSessionLimiter(c) ==
    /\ calls[c].pc \in {"rl_rlock", "rl_wlock"}
    /\ calls'[c].pc \notin {"rl_rlock", "rl_wlock"}

\* C35: however concurrent getSessionLimiter(S) calls interleave (lookup under
\* the read lock, then re-check and insert under the write lock), one limiter
\* at most is ever created for S, every caller gets that limiter, and the
\* tokens the calls of S consume are all drawn from that one bucket
C35_OneBucketPerSession ==
    /\ [](\A s \in Sessions :
            /\ Cardinality(LimitersOf(s)) <= 1
            /\ sessionLimiters[s] # 0 => LimitersOf(s) = {sessionLimiters[s]})
    /\ [][ \A c \in Calls : GotSessionLimiter(c) =>
             LET got == sessionLimiters'[calls[c].sid]
             IN /\ got # 0
                /\ LimitersOf(calls[c].sid)' = {got}
                /\ \A i \in DOMAIN limiterTokens' \ {got} :
                      i \in DOMAIN limiterTokens /\ limiterTokens'[i] = limiterTokens[i]
                /\ calls'[c].stok => limiterTokens'[got] =
                      (IF got \in DOMAIN limiterTokens THEN limiterTokens[got]
                       ELSE NewLimiter(config.PerSessionBurst)) - 1 ]_vars

\* both goroutines missed the limiter of s1 under the read lock; c2 has created
\* it and taken its only token, c1 is about to re-check under the write lock
C35_Witness ==
    /\ calls["c1"].pc = "rl_wlock" /\ calls["c1"].sid = "s1"
    /\ calls["c2"].sid = "s1" /\ calls["c2"].stok
    /\ sessionLimiters["s1"] # 0
    /\ limiterTokens[sessionLimiters["s1"]] = 0
    /\ LimitersOf("s1") = {sessionLimiters["s1"]}

\* goroutine c takes up a tool call in this step: the middleware's global check
StartsToolCall(c) ==
    /\ dispatched' = dispatched + 1
    /\ calls'[c] # calls[c]
    /\ calls'[c].tool \in {"registry", "tfe"}

\* the call of goroutine c has passed the whole middleware
PastMiddleware(c) ==
    /\ calls[c].tool \in {"registry", "tfe"}
    /\ calls[c].pc \notin {"idle", "rl_rlock", "rl_wlock"}
    /\ calls[c].result \notin {ErrGlobal, ErrSession}

\* C36: the global bucket is charged before the session check and is not
\* refunded: a call rejected by its session's limiter has consumed exactly one
\* global token; a call rejected by the global limiter consumes no session
\* token and creates no session bucket; a call that reaches the handler has
\* consumed exactly one token at each level that applies to it
C36_TokenAccounting ==
    /\ [](\A c \in Calls :
            /\ calls[c].result = ErrSession => calls[c].gtok /\ ~calls[c].stok
            /\ calls[c].result = ErrGlobal => ~calls[c].gtok /\ ~calls[c].stok
            /\ PastMiddleware(c) =>
                  calls[c].gtok /\ (calls[c].stok <=> calls[c].sid # NoSession))
    /\ [][ \A c \in Calls :
             /\ StartsToolCall(c) =>
                   /\ globalTokens' =
                         globalTokens - (IF calls'[c].result = ErrGlobal THEN 0 ELSE 1)
                   /\ calls'[c].gtok <=> calls'[c].result # ErrGlobal
                   /\ UNCHANGED << sessionLimiters, limiterTokens, limiterOwner >>
             /\ GotSessionLimiter(c) =>
                   LET got == sessionLimiters'[calls[c].sid]
                       before == IF got \in DOMAIN limiterTokens THEN limiterTokens[got]
                                 ELSE NewLimiter(config.PerSessionBurst)
                   IN /\ UNCHANGED globalTokens
                      /\ limiterTokens'[got] =
                            before - (IF calls'[c].result = ErrSession THEN 0 ELSE 1)
                      /\ calls'[c].stok <=> calls'[c].result # ErrSession ]_vars

\* within one tick two calls of s1 each took a global token; the second was
\* rejected by the limiter of s1 and the global bucket is two tokens down
C36_Witness ==
    /\ now = 0
    /\ \E c \in Calls :
          /\ Finished(c) /\ calls[c].sid = "s1"
          /\ calls[c].result = ErrSession
          /\ calls[c].gtok /\ ~calls[c].stok
    /\ admitted[0] = 2
    /\ globalTokens = config.GlobalBurst - 2
    /\ handled[0]["s1"] = 1


\* C37: a credentialed tool called on a session S that is not in
\* sessionsWithTFE but has a backend client: the wrapper registers S and runs
\* the real handler; whenever a credentialed call on S enters the real
\* handler, HasSessionWithTFE(S) is true, and S leaves sessionsWithTFE only by
\* the unregistration of EndSessionHandler
C37_WrapperSelfRegistration ==
    [][ /\ \A c \in Calls :
             LET sid == calls[c].sid
             IN /\ ( /\ calls[c].pc = "gate_get"
                     /\ calls'[c] # calls[c]
                     /\ GetTfeClient(sid) # NoClient )
                   => calls'[c].pc = "gate_reg"
                /\ ( calls[c].pc = "gate_reg" /\ calls'[c] # calls[c] )
                   => /\ sid \in sessionsWithTFE'
                      /\ tfeToolsRegistered'
                      /\ calls'[c].invoked
                      /\ calls'[c].pc = "t_get"
                /\ ( /\ calls'[c].tool = "tfe"
                     /\ ~calls[c].invoked
                     /\ calls'[c].invoked )
                   => calls'[c].sid \in sessionsWithTFE'
        /\ \A s \in Sessions :
             (s \in sessionsWithTFE /\ s \notin sessionsWithTFE')
                => sess[s] = "live" /\ sess'[s] = "end_tfe" ]_vars

\* the only call ever dispatched is in the real handler of a session whose
\* teardown has unregistered it: the wrapper found the client and registered
\* the session again
C37_Witness ==
    /\ dispatched = 1
    /\ \E c \in Calls :
          /\ calls[c].tool = "tfe"
          /\ calls[c].pc = "t_get"
          /\ calls[c].invoked
          /\ sess[calls[c].sid] = "end_tfe"
          /\ HasSessionWithTFE(calls[c].sid)


\* a response after which the client sends the request again
AsksForRetry(resp) == resp.status = 429 /\ resp.reset # ""

\* C38: a client built by createHTTPClient sends a request again only after a
\* 429 response that carries a non-empty x-ratelimit-reset header, and at most
\* 3 times (4 attempts in all); a transport error and every other status end
\* the call at once, and a call that has returned is not sent again
C38_RetryPolicy ==
    /\ [](\A c \in Calls :
            LET seen == calls[c].upstream
            IN /\ Len(seen) <= RetryMax + 1
               /\ \A i \in 1..(Len(seen) - 1) : AsksForRetry(seen[i])
               /\ (seen # << >> /\ ~AsksForRetry(seen[Len(seen)])) => Finished(c)
               /\ (Finished(c) /\ calls[c].result = ErrGivingUp) =>
                     /\ Len(seen) = RetryMax + 1
                     /\ AsksForRetry(seen[Len(seen)]))
    /\ [][ \A c \in Calls :
             LET seen == calls[c].upstream
             IN (calls'[c].upstream # seen /\ calls'[c].upstream # << >>) =>
                   /\ ~Finished(c)
                   /\ Len(calls'[c].upstream) = Len(seen) + 1
                   /\ SubSeq(calls'[c].upstream, 1, Len(seen)) = seen
                   /\ seen # << >> =>
                         /\ AsksForRetry(seen[Len(seen)])
                         /\ Len(seen) <= RetryMax ]_vars

\* one call was attempted four times, each answered 429 with a reset time, and
\* ended with the client's giving-up error; another ended on its first
\* attempt, a transport error
C38_Witness ==
    \E c1, c2 \in Calls :
       /\ Finished(c1) /\ Len(calls[c1].upstream) = RetryMax + 1
       /\ \A i \in 1..(RetryMax + 1) : AsksForRetry(calls[c1].upstream[i])
       /\ calls[c1].result = ErrGivingUp
       /\ Finished(c2) /\ Len(calls[c2].upstream) = 1
       /\ calls[c2].upstream[1].status = 0
       /\ calls[c2].result = ErrTransport


(***************************************************************************)
(* SpecPaginated: SendPaginatedRegistryCall fetches a listing page by page *)
(* through SendRegistryCall.  The registry answers every page request as   *)
(* it likes: status 200 with some body, another status, or no response.    *)
(* The position of the loop and what it has gathered are held in `http`.   *)
(***************************************************************************)
MaxPages == 4

\* the data arrays a page may carry
PageData == { << >>, << "d1" >>, << "d2", "d3" >>, << "d4" >> }

\* the bodies a 200 response may carry: an object with a data array, an object
\* without the field, one whose data is null, one whose data is a string, the
\* literal null, and text that is not JSON
PageBodies ==
    { [json |-> "data_array", data |-> d] : d \in PageData }
      \cup { [json |-> k, data |-> << >>] :
                k \in {"data_absent", "data_null", "data_string", "null", "not_json"} }

\* what the client hands SendRegistryCall for one page request
PageResponses ==
    { [status |-> 200, reset |-> "", body |-> b] : b \in PageBodies }
      \cup { [status |-> 404, reset |-> "", body |-> [json |-> "not_json", data |-> << >>]],
             [status |-> 0, reset |-> "", body |-> [json |-> "not_json", data |-> << >>]] }

UriPrefixes ==
    { "provider-docs?filter[provider-version]=70800&filter[category]=resources&filter[language]=hcl",
      "provider-docs?filter[provider-version]=70800&filter[category]=guides&filter[language]=hcl" }

ErrUnmarshal == "invalid character"

\* fmt.Sprintf("%s&page[number]=%d", uriPrefix, page)
PageURI(uriPrefix, page) == << uriPrefix, "&page[number]=", page >>

\* json.Unmarshal(resp, &wrapper): the data array of an object that has one, no
\* elements for an absent or null field and for the literal null, an error for
\* a data field of another type and for text that is not JSON
Unmarshal(body) ==
    IF body.json = "data_array" THEN [Data |-> body.data, err |-> NoError]
    ELSE IF body.json \in {"data_absent", "data_null", "null"}
    THEN [Data |-> << >>, err |-> NoError]
    ELSE [Data |-> << >>, err |-> ErrUnmarshal]

\* utils.LogAndReturnError(logger, context, err): the error, with its context
LogAndReturnError(context, page, err) == << context, page, err >>

\* a loop that puts each new page in front of the earlier ones
PrependPage(results, data) == data \o results
\* results = append(results, wrapper.Data...)
AppendPage(results, data) == results \o data

\* the nil error of a call that returned its results
NilError == << >>

NotReturned == [results |-> << >>, err |-> << "not returned" >>]

\* SendPaginatedRegistryCall is called: results is nil and page is 1
SendPaginatedRegistryCallStart(uriPrefix) ==
    /\ http.pc = "idle"
    /\ http' = [http EXCEPT !.pc = "loop", !.uriPrefix = uriPrefix, !.page = 1,
                            !.results = << >>]
    /\ UNCHANGED << config, now, rateVars, clientVars, registryVars, sessVars,
                    calls, dispatched, handled, admitted >>

\* one round of the loop: request the page, return the error of the call or of
\* the unmarshalling with nil results, leave the loop on an empty data array and
\* return the results, else append the page's data and go on to the next page
SendPaginatedRegistryCallPage ==
    /\ http.pc = "loop"
    /\ http.page <= MaxPages
    /\ \E resp \in PageResponses :
          LET uri == PageURI(http.uriPrefix, http.page)
              out == SendRegistryCall(resp, IF resp.status = 0 THEN ErrTransport ELSE NoError)
              wrapper == Unmarshal(out.body)
              asked == [http EXCEPT !.sent = Append(@, uri), !.answers = Append(@, resp)]
          IN http' =
                IF out.err # NoError
                THEN [asked EXCEPT !.pc = "returned",
                         !.out = [results |-> << >>,
                                  err |-> LogAndReturnError("calling paginated registry API",
                                                            http.page, out.err)]]
                ELSE IF wrapper.err # NoError
                THEN [asked EXCEPT !.pc = "returned",
                         !.out = [results |-> << >>,
                                  err |-> LogAndReturnError("unmarshalling page",
                                                            http.page, wrapper.err)]]
                ELSE IF Len(wrapper.Data) = 0
                THEN [asked EXCEPT !.pc = "returned",
                         !.out = [results |-> http.results, err |-> NilError]]
                ELSE [asked EXCEPT !.results = AppendPage(@, wrapper.Data),
                                   !.page = @ + 1]
    /\ UNCHANGED << config, now, rateVars, clientVars, registryVars, sessVars,
                    calls, dispatched, handled, admitted >>

InitPaginated ==
    /\ NewServer(TestConfig)
    /\ http = [pc |-> "idle", uriPrefix |-> "", page |-> 0, results |-> << >>,
               sent |-> << >>, answers |-> << >>, out |-> NotReturned]

NextPaginated ==
    \/ \E uriPrefix \in UriPrefixes : SendPaginatedRegistryCallStart(uriPrefix)
    \/ SendPaginatedRegistryCallPage

SpecPaginated == InitPaginated /\ [][NextPaginated]_vars

\* every round of the loop that can run does run
SpecPaginatedFair == SpecPaginated /\ WF_vars(SendPaginatedRegistryCallPage)

\* the answer is a page with at least one element
FullPage(resp) ==
    resp.status = 200 /\ resp.body.json = "data_array" /\ resp.body.data # << >>

\* the answer is a page without elements
EmptyPage(resp) ==
    /\ resp.status = 200
    /\ \/ resp.body.json = "data_array" /\ resp.body.data = << >>
       \/ resp.body.json \in {"data_absent", "data_null", "null"}

\* the elements of the first n answers, in the order of the answers
RECURSIVE ElementsOf(_, _)
ElementsOf(answers, n) ==
    IF n = 0 THEN << >> ELSE ElementsOf(answers, n - 1) \o answers[n].body.data

\* C39: SendPaginatedRegistryCall requests pages 1, 2, 3, ... in order, stops
\* at the first page whose data array is empty and returns the elements of all
\* earlier pages in page order; an error or an unparsable body on any page
\* returns an error and no results; the loop ends exactly when the registry
\* answers with an empty page or an error, at whatever page that is
C39_PaginatedFetch ==
    /\ [](LET n == Len(http.answers)
          IN /\ Len(http.sent) = n
             /\ \A i \in 1..n : http.sent[i] = PageURI(http.uriPrefix, i)
             /\ \A i \in 1..(n - 1) : FullPage(http.answers[i])
             /\ http.pc = "loop" =>
                   /\ http.page = n + 1
                   /\ n > 0 => FullPage(http.answers[n])
                   /\ http.results = ElementsOf(http.answers, n)
                   /\ http.out = NotReturned
             /\ http.pc = "returned" =>
                   /\ n > 0
                   /\ ~FullPage(http.answers[n])
                   /\ IF EmptyPage(http.answers[n])
                      THEN http.out = [results |-> ElementsOf(http.answers, n - 1),
                                       err |-> NilError]
                      ELSE http.out.err # NilError /\ http.out.results = << >>)
    /\ [][ http.pc = "returned" => http' = http ]_vars
    /\ (http.pc = "loop") ~> (http.pc = "returned" \/ http.page = MaxPages + 1)

\* the call returned the elements of three pages, in page order, when the
\* fourth request was answered with an empty page
C39_Witness ==
    /\ http.pc = "returned"
    /\ http.sent = [i \in 1..4 |-> PageURI(http.uriPrefix, i)]
    /\ http.answers[1].body.data = << "d2", "d3" >>
    /\ http.answers[2].body.data = << "d1" >>
    /\ http.answers[3].body.data = << "d4" >>
    /\ http.out = [results |-> << "d2", "d3", "d1", "d4" >>, err |-> NilError]

====
